---- MODULE Spec2Model ----
(***************************************************************************)
(* Lumina Cut: the timeline compositing engine and the timeline edit       *)
(* model.                                                                  *)
(*                                                                         *)
(* Timeline times (startOffset, duration, sourceStart, currentTime, marker *)
(* times) are JavaScript numbers in seconds.  They are represented here as *)
(* integers counting ticks of 1/TicksPerSecond second, so 0.1 s is         *)
(* MinDuration ticks.  Pointer positions are pixels; pxToTime divides by   *)
(* the zoom (pixels per second) and the pointer inputs are restricted to   *)
(* the pixel deltas whose time is a whole number of ticks.                 *)
(*                                                                         *)
(* Speed-ramp arithmetic is done on exact rationals [n, d] (d > 0, lowest  *)
(* terms); a division by zero, which is NaN or +-Infinity in the code, is  *)
(* tested where the code tests it.                                         *)
(***************************************************************************)
EXTENDS Integers, Sequences, FiniteSets, TLC

VARIABLES
    tracks,       \* ProjectState.tracks: sequence of [id, type, isMuted, isSolo]
    clips,        \* ProjectState.clips: sequence of clip records
    markers,      \* ProjectState.markers: sequence of marker times
    currentTime,  \* ProjectState.currentTime (ticks)
    duration,     \* ProjectState.duration (ticks)
    zoom,         \* ProjectState.zoom (pixels per second)
    nextId,       \* number of clip ids handed out so far
    dragState,    \* Timeline dragState (NoDrag when null)
    snapLine,     \* Timeline snapLine (NoSnap when null)
    freeze,       \* the pending freeze-frame capture (NoFreeze when none)
    lastOp,       \* the last handler that ran, with its inputs and the state it saw
    rampCall,     \* inputs of the speed-ramp resolver call under evaluation
    rampRet,      \* results of the speed-ramp resolver call
    isPlaying,    \* ProjectState.isPlaying
    loop,         \* the playback effect: its dependencies, pending frame, lastTime
    clipboard,    \* App clipboard (NoClipboard when null)
    frames,       \* the frames the player has rendered, latest last
    extending,    \* the pending Smart Extend request (NoExtend when none)
    exporter,     \* the running exportProject call (NoExport when none)
    reframing     \* the pending Auto Reframe analysis (NoReframe when none)

vars == <<tracks, clips, markers, currentTime, duration, zoom, nextId,
          dragState, snapLine, freeze, lastOp, rampCall, rampRet,
          isPlaying, loop, clipboard, frames, extending, exporter, reframing>>

projectVars == <<tracks, clips, markers, currentTime, duration, zoom, nextId,
                 dragState, snapLine, freeze, lastOp>>

rampVars == <<rampCall, rampRet>>

sessionVars == <<isPlaying, loop, clipboard, frames, extending, exporter,
                 reframing>>

-----------------------------------------------------------------------------
(* Exact rational arithmetic, standing for the code's floating point.      *)

Abs(x) == IF x < 0 THEN -x ELSE x

Min(a, b) == IF a < b THEN a ELSE b

Max(a, b) == IF a > b THEN a ELSE b

RECURSIVE Gcd(_, _)
Gcd(a, b) == IF b = 0 THEN a ELSE Gcd(b, a % b)

Rat(n, d) ==
    LET g == Gcd(Abs(n), Abs(d))
        s == IF d < 0 THEN -1 ELSE 1
    IN  [n |-> (s * n) \div g, d |-> (s * d) \div g]

RInt(k) == [n |-> k, d |-> 1]

RAdd(a, b) == Rat(a.n * b.d + b.n * a.d, a.d * b.d)

RSub(a, b) == Rat(a.n * b.d - b.n * a.d, a.d * b.d)

RMul(a, b) == Rat(a.n * b.n, a.d * b.d)

RDiv(a, b) == Rat(a.n * b.d, a.d * b.n)

RHalf(a) == Rat(a.n, 2 * a.d)

RLt(a, b) == a.n * b.d < b.n * a.d

RLe(a, b) == a.n * b.d <= b.n * a.d

RZero == RInt(0)

ROne == RInt(1)

-----------------------------------------------------------------------------
(* Bounds of the speed-ramp inputs.                                        *)

MaxPoints == 3

RampGrid == {Rat(0, 1), Rat(1, 4), Rat(1, 2), Rat(3, 4), Rat(1, 1)}

RampSpeeds == {Rat(1, 2), RInt(1), RInt(2)}

RampDurations == {RInt(1), RInt(3), RInt(10)}

-----------------------------------------------------------------------------
(* Speed-ramp resolver.                                                    *)

\* for (i = 0; i < points.length - 1; i++) area += segment * avgSpeed
RECURSIVE RampedArea(_, _, _, _)
RampedArea(i, area, timelineDuration, points) ==
    IF i > Len(points) - 1 THEN area
    ELSE LET p1 == points[i]
             p2 == points[i + 1]
             segmentTimelineDuration == RMul(RSub(p2.time, p1.time), timelineDuration)
             avgSpeed == RHalf(RAdd(p1.speed, p2.speed))
         IN  RampedArea(i + 1, RAdd(area, RMul(segmentTimelineDuration, avgSpeed)),
                        timelineDuration, points)

DropLastSegmentDuration(timelineDuration, points) ==
    IF Len(points) < 2 THEN RZero
    ELSE RampedArea(1, RZero, timelineDuration, SubSeq(points, 1, Len(points) - 1))

calculateRampedSourceDuration(timelineDuration, points) ==
    RampedArea(1, RZero, timelineDuration, points)

\* The else branch of the loop body: the segment that holds `progress`.
\* The quotient is NaN or an infinity exactly when the two times are equal.
EndpointPartialSegment(sourceTime, lastPoint, currentPoint, progress, timelineDuration) ==
    IF currentPoint.time = lastPoint.time THEN sourceTime
    ELSE LET segmentProgress == RDiv(RSub(progress, lastPoint.time),
                                     RSub(currentPoint.time, lastPoint.time))
             timeInSegment == RMul(RMul(segmentProgress,
                                        RSub(currentPoint.time, lastPoint.time)),
                                   timelineDuration)
         IN  RAdd(sourceTime, RMul(timeInSegment, currentPoint.speed))

PartialSegment(sourceTime, lastPoint, currentPoint, progress, timelineDuration) ==
    IF currentPoint.time = lastPoint.time THEN sourceTime
    ELSE LET segmentProgress == RDiv(RSub(progress, lastPoint.time),
                                     RSub(currentPoint.time, lastPoint.time))
             speedAtProgress == RAdd(lastPoint.speed,
                                     RMul(RSub(currentPoint.speed, lastPoint.speed),
                                          segmentProgress))
             avgSpeed == RHalf(RAdd(lastPoint.speed, speedAtProgress))
             timeInSegment == RMul(RMul(segmentProgress,
                                        RSub(currentPoint.time, lastPoint.time)),
                                   timelineDuration)
         IN  RAdd(sourceTime, RMul(timeInSegment, avgSpeed))

\* for (i = 1; i < points.length; i++) { ... } with points 1-indexed here
RECURSIVE SourceTimeWalk(_, _, _, _, _, _)
SourceTimeWalk(i, sourceTime, lastPoint, progress, timelineDuration, points) ==
    IF i > Len(points) THEN sourceTime
    ELSE LET currentPoint == points[i] IN
         IF RLt(currentPoint.time, progress)
         THEN LET segmentDuration == RMul(RSub(currentPoint.time, lastPoint.time),
                                          timelineDuration)
                  avgSpeed == RHalf(RAdd(lastPoint.speed, currentPoint.speed))
              IN  SourceTimeWalk(i + 1, RAdd(sourceTime, RMul(segmentDuration, avgSpeed)),
                                 currentPoint, progress, timelineDuration, points)
         ELSE PartialSegment(sourceTime, lastPoint, currentPoint, progress,
                             timelineDuration)

calculateSourceTimeAtProgress(progress, timelineDuration, points) ==
    IF Len(points) < 2 THEN RZero
    ELSE SourceTimeWalk(2, RZero, points[1], progress, timelineDuration, points)

-----------------------------------------------------------------------------
(* The speed-ramp resolver applied to bounded inputs.                      *)

RampPoint == [time : RampGrid, speed : RampSpeeds]

\* Control-point lists as the ramp editor keeps them: sorted by time.
SortedByTime(points) ==
    \A i \in 1..(Len(points) - 1) : RLe(points[i].time, points[i + 1].time)

PointLists ==
    {ps \in UNION {[1..n -> RampPoint] : n \in 0..MaxPoints} : SortedByTime(ps)}

NoRet == [done |-> FALSE, sourceTime |-> RZero, rampedDuration |-> RZero]

NoCall == [progress |-> RZero, timelineDuration |-> ROne, points |-> <<>>]

-----------------------------------------------------------------------------
(* Data model.                                                             *)

\* One tick is 1/TicksPerSecond second.
TicksPerSecond == 20

\* if (newDuration >= 0.1 ...): 0.1 s in ticks
MinDuration == 2

\* pxToTime(10): the snapping threshold in pixels
SnapPx == 10

\* the freeze-frame image clip lasts 2 s, in ticks
FreezeDuration == 40

\* handleZoom clamps the zoom to 1..200, the buttons step it by 10
ZoomMin == 1

ZoomMax == 200

ZoomStep == 10

\* INITIAL_PROJECT_STATE.zoom
InitialZoom == 20

\* INITIAL_PROJECT_STATE.duration: 30 s, in ticks
InitialDuration == 600

Track(id, type) == [id |-> id, type |-> type, isMuted |-> FALSE, isSolo |-> FALSE]

INITIAL_TRACKS ==
    << Track("t1", "text"), Track("1", "video"), Track("2", "video"),
       Track("3", "audio"), Track("4", "audio") >>

\* properties is a sparse bag: a function from the names that are set.
NoProperties == [k \in {} |-> 0]

\* the bag addToTimeline gives a new clip (the fields the model follows)
DefaultProperties == [volume |-> 100, reversed |-> FALSE, rampEnabled |-> FALSE]

\* transition?: undefined
NoTransition == [type |-> "none"]

Transition(type, dur) == [type |-> type, duration |-> dur]

Clip(id, type, trackId, startOffset, dur, sourceStart, selected, props) ==
    [id |-> id, type |-> type, trackId |-> trackId, startOffset |-> startOffset,
     duration |-> dur, sourceStart |-> sourceStart, selected |-> selected,
     properties |-> props, transition |-> NoTransition]

ClipEnd(c) == c.startOffset + c.duration

Range(s) == {s[i] : i \in DOMAIN s}

\* s.find(pred) over the indices that match: the first one, 0 when none
FirstIndex(hits) ==
    IF hits = {} THEN 0 ELSE CHOOSE i \in hits : \A j \in hits : i <= j

ClipIndexById(cs, id) == FirstIndex({i \in DOMAIN cs : cs[i].id = id})

TrackIndexById(ts, id) == FirstIndex({i \in DOMAIN ts : ts[i].id = id})

\* updateClip: p.clips.map(c => c.id === id ? { ...c, ...updates } : c)
MergeInto(c, updates) ==
    [k \in DOMAIN c |-> IF k \in DOMAIN updates THEN updates[k] ELSE c[k]]

updateClip(cs, id, updates) ==
    [i \in DOMAIN cs |-> IF cs[i].id = id THEN MergeInto(cs[i], updates) ELSE cs[i]]

\* selectClip: p.clips.map(c => ({ ...c, selected: c.id === id }))
selectClip(cs, id) ==
    [i \in DOMAIN cs |-> [cs[i] EXCEPT !.selected = (cs[i].id = id)]]

NoDrag == [type |-> "none"]

NoSnap == [set |-> FALSE]

SnapAt(p) == [set |-> TRUE, at |-> p]

NoFreeze == [pending |-> FALSE]

NoOp == [name |-> "none"]

\* The playback effect as it stands after mounting with isPlaying false:
\* no frame requested, lastTime undefined.
NoLoop ==
    [playing |-> FALSE, duration |-> InitialDuration, pending |-> FALSE,
     hasLastTime |-> FALSE]

NoClipboard == [set |-> FALSE]

NoExtend == [pending |-> FALSE]

NoExport == [phase |-> "idle"]

NoReframe == [pending |-> FALSE]

-----------------------------------------------------------------------------
(* Timeline: pointer gestures on clips (move, resize-left, resize-right).  *)

\* Bounds of the gesture exploration.  A behaviour follows one gesture, from
\* the press on a clip to the release; the initial projects vary the clips.
MaxDelta == 6

MaxZoom == 30

\* pointer deltas in pixels
PointerDeltas == {2 * k : k \in -MaxDelta..MaxDelta}

\* pxToTime(px) = px / state.zoom seconds, in ticks; PxExact(px) says the
\* quotient is a whole number of ticks
PxExact(px) == (px * TicksPerSecond) % zoom = 0

pxToTime(px) == (px * TicksPerSecond) \div zoom

\* snapThreshold = pxToTime(10).  Distances are compared scaled by the zoom,
\* which keeps the threshold exact when 10 / zoom is no whole number of ticks.
SnapThresholdScaled == SnapPx * TicksPerSecond

RECURSIVE ClipAnchors(_, _)
ClipAnchors(cs, i) ==
    IF i > Len(cs) THEN <<>>
    ELSE <<cs[i].startOffset, ClipEnd(cs[i])>> \o ClipAnchors(cs, i + 1)

\* [0, state.currentTime, ...markers] then every clip's start and end
SnapPoints == <<0, currentTime>> \o markers \o ClipAnchors(clips, 1)

\* snapPoints.filter(p => p !== clip.startOffset && p !== clip.startOffset + clip.duration)
ClipSnapPoints(clip) ==
    SelectSeq(SnapPoints, LAMBDA p : p # clip.startOffset /\ p # ClipEnd(clip))

\* The move loop: st = [pos, closest, cand]; closest is scaled by the zoom.
MoveSnapStep(st, point, clipDuration) ==
    LET distStart == Abs(st.pos - point)
        s1 == IF distStart * zoom < st.closest
              THEN [pos |-> point, closest |-> distStart * zoom, cand |-> SnapAt(point)]
              ELSE st
        distEnd == Abs(s1.pos + clipDuration - point)
    IN  IF distEnd * zoom < s1.closest
        THEN [pos |-> point - clipDuration, closest |-> distEnd * zoom,
              cand |-> SnapAt(point)]
        ELSE s1

RECURSIVE MoveSnap(_, _, _, _)
MoveSnap(st, points, i, clipDuration) ==
    IF i > Len(points) THEN st
    ELSE MoveSnap(MoveSnapStep(st, points[i], clipDuration), points, i + 1, clipDuration)

\* The resize loops: one moving edge.
EdgeSnapStep(st, point) ==
    LET dist == Abs(st.pos - point)
    IN  IF dist * zoom < st.closest
        THEN [pos |-> point, closest |-> dist * zoom, cand |-> SnapAt(point)]
        ELSE st

RECURSIVE EdgeSnap(_, _, _)
EdgeSnap(st, points, i) ==
    IF i > Len(points) THEN st
    ELSE EdgeSnap(EdgeSnapStep(st, points[i]), points, i + 1)

SnapStart(pos) == [pos |-> pos, closest |-> SnapThresholdScaled, cand |-> NoSnap]

\* canDrop
CanDrop(clip, targetTrack) ==
    \/ (clip.type \in {"video", "image"} /\ targetTrack.type = "video")
    \/ (clip.type = "audio" /\ targetTrack.type = "audio")
    \/ (clip.type = "text" /\ targetTrack.type = "text")

\* if (newDuration >= 0.1 && newSourceStart >= 0)
ResizeLeftAcceptsAnyInPoint(newDuration, newSourceStart) == newDuration >= MinDuration

ResizeLeftAccepts(newDuration, newSourceStart) ==
    newDuration >= MinDuration /\ newSourceStart >= 0

ResizeRightAcceptsAnyDuration(newDuration) == TRUE

\* if (newDuration >= 0.1)
ResizeRightAccepts(newDuration) == newDuration >= MinDuration

\* handleClipMouseDown / handleResizeLeftDown / handleResizeRightDown:
\* onSelectClip(clip.id); setDragState({...}).  The resize handles are
\* rendered on the selected clip only.
GestureDown(i, type) ==
    /\ dragState = NoDrag
    /\ lastOp.name = "none"
    /\ type = "move" \/ clips[i].selected
    /\ clips' = selectClip(clips, clips[i].id)
    /\ dragState' = [type |-> type, clipId |-> clips[i].id,
                     initialStartOffset |-> clips[i].startOffset,
                     initialTrackId |-> clips[i].trackId,
                     initialDuration |-> clips[i].duration,
                     initialSourceStart |-> clips[i].sourceStart]
    /\ lastOp' = [name |-> "down", clipId |-> clips[i].id]
    /\ UNCHANGED <<tracks, markers, currentTime, duration, zoom, nextId, snapLine,
                   freeze, rampVars,
                   sessionVars>>

handleClipMouseDown == \E i \in DOMAIN clips : GestureDown(i, "move")

handleResizeLeftDown == \E i \in DOMAIN clips : GestureDown(i, "resize-left")

handleResizeRightDown == \E i \in DOMAIN clips : GestureDown(i, "resize-right")

\* What a pointer-move update saw and decided, kept for the properties.
MoveRecord(name, clip, deltaTime, raw, snapped, applied) ==
    [name |-> name, clipId |-> clip.id, deltaTime |-> deltaTime, raw |-> raw,
     snapped |-> snapped.pos, cand |-> snapped.cand, applied |-> applied,
     anchors |-> ClipSnapPoints(clip), zoom |-> zoom]

\* The frame of every pointer-move update.
GlobalMoveFrame ==
    UNCHANGED <<tracks, markers, currentTime, duration, zoom, nextId, dragState,
                freeze, rampVars,
                   sessionVars>>

\* const clip = state.clips.find(c => c.id === dragState.clipId); if (!clip) return;
DraggedClipIndex == ClipIndexById(clips, dragState.clipId)

\* handleGlobalMove, dragState.type === 'move': the pointer is dx pixels from
\* where it went down and over row trackIndex (0 or Len(tracks)+1: no row).
GlobalMoveMove ==
    \E dx \in PointerDeltas, trackIndex \in 0..(Len(tracks) + 1) :
        /\ dragState.type = "move"
        /\ PxExact(dx)
        /\ DraggedClipIndex # 0
        /\ LET clip == clips[DraggedClipIndex]
               deltaTime == pxToTime(dx)
               raw == Max(0, dragState.initialStartOffset + deltaTime)
               snapped == MoveSnap(SnapStart(raw), ClipSnapPoints(clip), 1, clip.duration)
               newTrackId ==
                   IF trackIndex \in DOMAIN tracks /\ CanDrop(clip, tracks[trackIndex])
                   THEN tracks[trackIndex].id
                   ELSE dragState.initialTrackId
           IN  /\ snapLine' = snapped.cand
               /\ clips' = updateClip(clips, clip.id,
                                      [startOffset |-> snapped.pos, trackId |-> newTrackId])
               /\ lastOp' = MoveRecord("move", clip, deltaTime, raw, snapped, TRUE)
                            @@ [trackBefore |-> clip.trackId,
                                overIncompatible |->
                                    /\ trackIndex \in DOMAIN tracks
                                    /\ ~CanDrop(clip, tracks[trackIndex])]
        /\ GlobalMoveFrame

\* handleGlobalMove, dragState.type === 'resize-left'
GlobalMoveResizeLeft ==
    \E dx \in PointerDeltas :
        /\ dragState.type = "resize-left"
        /\ PxExact(dx)
        /\ DraggedClipIndex # 0
        /\ LET clip == clips[DraggedClipIndex]
               raw == dragState.initialStartOffset + pxToTime(dx)
               snapped == EdgeSnap(SnapStart(raw), ClipSnapPoints(clip), 1)
               newStart == snapped.pos
               deltaTime == newStart - dragState.initialStartOffset
               newDuration == dragState.initialDuration - deltaTime
               newSourceStart == dragState.initialSourceStart + deltaTime
               ok == ResizeLeftAccepts(newDuration, newSourceStart)
           IN  /\ snapLine' = IF ok THEN snapped.cand ELSE snapLine
               /\ clips' = IF ok
                           THEN updateClip(clips, clip.id,
                                           [startOffset |-> newStart,
                                            duration |-> newDuration,
                                            sourceStart |-> newSourceStart])
                           ELSE clips
               /\ lastOp' = MoveRecord("resize-left", clip, pxToTime(dx), raw, snapped, ok)
                            @@ [newDuration |-> newDuration,
                                newSourceStart |-> newSourceStart, before |-> clips]
        /\ GlobalMoveFrame

\* handleGlobalMove, dragState.type === 'resize-right'
GlobalMoveResizeRight ==
    \E dx \in PointerDeltas :
        /\ dragState.type = "resize-right"
        /\ PxExact(dx)
        /\ DraggedClipIndex # 0
        /\ LET clip == clips[DraggedClipIndex]
               raw == dragState.initialStartOffset + dragState.initialDuration
                      + pxToTime(dx)
               snapped == EdgeSnap(SnapStart(raw), ClipSnapPoints(clip), 1)
               newDuration == snapped.pos - dragState.initialStartOffset
               ok == ResizeRightAccepts(newDuration)
           IN  /\ snapLine' = IF ok THEN snapped.cand ELSE snapLine
               /\ clips' = IF ok
                           THEN updateClip(clips, clip.id, [duration |-> newDuration])
                           ELSE clips
               /\ lastOp' = MoveRecord("resize-right", clip, pxToTime(dx), raw, snapped, ok)
                            @@ [newDuration |-> newDuration, before |-> clips]
        /\ GlobalMoveFrame

handleGlobalMove == GlobalMoveMove \/ GlobalMoveResizeLeft \/ GlobalMoveResizeRight

\* handleGlobalUp: setDragState(null); setSnapLine(null)
handleGlobalUp ==
    /\ dragState # NoDrag
    /\ dragState' = NoDrag
    /\ snapLine' = NoSnap
    /\ lastOp' = [name |-> "up"]
    /\ UNCHANGED <<tracks, clips, markers, currentTime, duration, zoom, nextId, freeze, rampVars,
                   sessionVars>>

\* handleZoom: zoom = max(1, min(200, zoom + delta)), delta = +-10
handleZoom ==
    \E delta \in {-ZoomStep, ZoomStep} :
        /\ dragState = NoDrag
        /\ zoom' = Max(ZoomMin, Min(ZoomMax, zoom + delta))
        /\ zoom' <= MaxZoom
        /\ zoom' # zoom
        /\ UNCHANGED <<tracks, clips, markers, currentTime, duration, nextId, dragState,
                       snapLine, freeze, lastOp, rampVars,
                   sessionVars>>

-----------------------------------------------------------------------------
(* Pointer gestures on a project with two clips on Video 1, a marker and   *)
(* the playhead as anchors.                                                *)

DragClipLists ==
    { << Clip(1, "video", "1", 20, 30, src, sel = 1, DefaultProperties),
         Clip(2, "video", "1", 60, 4, 0, sel = 2, DefaultProperties) >> :
      src \in {0, 8}, sel \in 0..2 }

IdleEditor ==
    /\ tracks = INITIAL_TRACKS
    /\ duration = InitialDuration
    /\ zoom = InitialZoom
    /\ dragState = NoDrag
    /\ snapLine = NoSnap
    /\ freeze = NoFreeze
    /\ lastOp = NoOp
    /\ isPlaying = FALSE
    /\ loop = NoLoop
    /\ clipboard = NoClipboard
    /\ frames = <<>>
    /\ extending = NoExtend
    /\ exporter = NoExport
    /\ reframing = NoReframe

IdleProject ==
    /\ IdleEditor
    /\ rampCall = NoCall
    /\ rampRet = NoRet

InitDrag ==
    /\ IdleProject
    /\ clips \in DragClipLists
    /\ nextId = 2
    /\ markers \in {<<>>, <<57>>}
    /\ currentTime \in {0, 35}

NextDrag ==
    \/ handleClipMouseDown
    \/ handleResizeLeftDown
    \/ handleResizeRightDown
    \/ handleGlobalMove
    \/ handleGlobalUp
    \/ handleZoom

SpecDrag == InitDrag /\ [][NextDrag]_vars

-----------------------------------------------------------------------------
(* Properties of the pointer gestures.                                     *)

IsPointerMove == lastOp.name \in {"move", "resize-left", "resize-right"}

DraggedClip == clips[ClipIndexById(clips, lastOp.clipId)]

\* C1: after any sequence of move, resize-left and resize-right pointer-move
\* updates every clip has duration >= 0.1 s and sourceStart >= 0, and a
\* resize-left update whose result would have duration < 0.1 s or
\* sourceStart < 0 changes no clip.
C1_TrimKeepsMinimumDuration ==
    /\ \A i \in DOMAIN clips :
           clips[i].duration >= MinDuration /\ clips[i].sourceStart >= 0
    /\ (/\ lastOp.name = "resize-left"
        /\ (lastOp.newDuration < MinDuration \/ lastOp.newSourceStart < 0))
       => (~lastOp.applied /\ clips = lastOp.before)

\* C1 witness: a resize-left update proposed a clip shorter than 0.1 s and
\* was rejected.
C1_Witness ==
    /\ lastOp.name = "resize-left"
    /\ lastOp.newDuration < MinDuration
    /\ lastOp.newSourceStart >= 0
    /\ clips = lastOp.before

\* The anchors within the snapping threshold of a raw edge position.
NearAnchors(raw) ==
    {a \in Range(lastOp.anchors) : Abs(raw - a) * lastOp.zoom < SnapThresholdScaled}

ClosestAnchors(raw) ==
    {a \in NearAnchors(raw) : \A b \in NearAnchors(raw) : Abs(raw - a) <= Abs(raw - b)}

\* A single moving edge ends on the closest anchor in reach, or on the raw
\* position when no anchor is in reach.
EdgeSnapsToClosest(raw, edge) ==
    IF NearAnchors(raw) # {}
    THEN edge \in ClosestAnchors(raw) /\ snapLine = SnapAt(edge)
    ELSE edge = raw /\ snapLine = NoSnap

\* A moved clip: its start or its end ends on the anchor closest to that
\* edge's raw position, among the edges that have an anchor in reach.
MoveSnapsToClosest(rawStart, len, start) ==
    LET rawEnd == rawStart + len
        best(raw, a) ==
            /\ a \in ClosestAnchors(raw)
            /\ \A b \in NearAnchors(rawStart) : Abs(raw - a) <= Abs(rawStart - b)
            /\ \A b \in NearAnchors(rawEnd) : Abs(raw - a) <= Abs(rawEnd - b)
    IN  IF NearAnchors(rawStart) # {} \/ NearAnchors(rawEnd) # {}
        THEN \/ best(rawStart, start) /\ snapLine = SnapAt(start)
             \/ best(rawEnd, start + len) /\ snapLine = SnapAt(start + len)
        ELSE start = rawStart /\ snapLine = NoSnap

\* C6: on every applied move or resize pointer-move update, a snapping edge
\* whose raw position has an anchor within 10px/zoom ends exactly on the
\* anchor closest to that raw position and snapLine is that anchor; with no
\* anchor in reach the clip follows the raw pointer delta and snapLine is null.
C6_SnapsToClosestAnchor ==
    (IsPointerMove /\ lastOp.applied) =>
        CASE lastOp.name = "move" ->
                 MoveSnapsToClosest(lastOp.raw, DraggedClip.duration,
                                    DraggedClip.startOffset)
          [] lastOp.name = "resize-left" ->
                 EdgeSnapsToClosest(lastOp.raw, DraggedClip.startOffset)
          [] lastOp.name = "resize-right" ->
                 EdgeSnapsToClosest(lastOp.raw, ClipEnd(DraggedClip))

\* C22: after every move pointer-move update, snapped or not, the moved
\* clip's startOffset is >= 0.
C22_MovedClipStartsAtOrAfterZero ==
    lastOp.name = "move" => DraggedClip.startOffset >= 0

\* C23: a move update puts the clip only on a track compatible with its
\* kind, and an update whose pointer is over an incompatible track leaves
\* the clip on the track it was on right before that update.
C23_IncompatibleTrackLeavesClipInPlace ==
    lastOp.name = "move" =>
        /\ CanDrop(DraggedClip, tracks[TrackIndexById(tracks, DraggedClip.trackId)])
        /\ lastOp.overIncompatible => DraggedClip.trackId = lastOp.trackBefore

\* what a resize-right update leaves alone: the other clips, and the
\* dragged clip's startOffset, sourceStart and trackId
ResizeRightFrame ==
    /\ Len(clips) = Len(lastOp.before)
    /\ \A i \in DOMAIN clips :
           /\ clips[i].id = lastOp.before[i].id
           /\ clips[i].startOffset = lastOp.before[i].startOffset
           /\ clips[i].sourceStart = lastOp.before[i].sourceStart
           /\ clips[i].trackId = lastOp.before[i].trackId
           /\ clips[i].id # lastOp.clipId => clips[i] = lastOp.before[i]

\* C24 as stated: a resize-right update leaves startOffset, sourceStart and
\* trackId alone and sets duration to max(0.1, snappedEnd - startOffset), so
\* a pointer dragged past the minimum leaves the clip exactly 0.1 s long.
C24_ResizeRightClampsToMinimum ==
    lastOp.name = "resize-right" =>
        /\ ResizeRightFrame
        /\ DraggedClip.duration
               = Max(MinDuration, lastOp.snapped - DraggedClip.startOffset)

\* C24 amended: a resize-right update leaves startOffset, sourceStart and
\* trackId alone; it sets duration to snappedEnd - startOffset when that is
\* >= 0.1 s, and changes no clip when it is shorter.
C24_ResizeRightRejectsBelowMinimum ==
    lastOp.name = "resize-right" =>
        /\ ResizeRightFrame
        /\ IF lastOp.snapped - DraggedClip.startOffset >= MinDuration
           THEN DraggedClip.duration = lastOp.snapped - DraggedClip.startOffset
           ELSE clips = lastOp.before

\* C24 witness: the pointer went left past the minimum and the update left
\* the clip longer than 0.1 s, as it was.
C24_Witness ==
    /\ lastOp.name = "resize-right"
    /\ lastOp.snapped - DraggedClip.startOffset < MinDuration
    /\ clips = lastOp.before
    /\ DraggedClip.duration > MinDuration

\* the startOffset the next move update gives the dragged clip when the
\* pointer has not moved since the last one: the same raw position, snapped
\* against the anchors of the present state
RepeatedMoveStart ==
    MoveSnap(SnapStart(lastOp.raw), ClipSnapPoints(DraggedClip), 1,
             DraggedClip.duration).pos

\* C28: a second move update with the same pointer position gives the clip
\* the startOffset the first one gave it.
C28_RepeatedMoveKeepsStart ==
    lastOp.name = "move" => RepeatedMoveStart = DraggedClip.startOffset

-----------------------------------------------------------------------------
(* App: seek, select, delete, split and freeze-frame.                      *)

\* Bound on the number of clip ids a behaviour hands out (the clips ever made).
MaxClips == 4

\* Math.random().toString(36): a fresh id
FreshId(k) == nextId + k

\* project.clips.find(c => c.selected): index, 0 when none
SelectedIndex(cs) == FirstIndex({i \in DOMAIN cs : cs[i].selected})

SelectedVideoIndex(cs) ==
    FirstIndex({i \in DOMAIN cs : cs[i].selected /\ cs[i].type = "video"})

\* handleSeek: currentTime = max(0, min(time, p.duration))
handleSeek(time) ==
    /\ currentTime' = Max(0, Min(time, duration))
    /\ lastOp' = [name |-> "seek"]
    /\ UNCHANGED <<tracks, clips, markers, duration, zoom, nextId, dragState, snapLine,
                   freeze, rampVars,
                   sessionVars>>

\* selectClip(id) from a click on a clip
handleSelectClip(id) ==
    /\ clips' = selectClip(clips, id)
    /\ lastOp' = [name |-> "select"]
    /\ UNCHANGED <<tracks, markers, currentTime, duration, zoom, nextId, dragState,
                   snapLine, freeze, rampVars,
                   sessionVars>>

\* deleteSelectedClip: p.clips.filter(c => !c.selected)
deleteSelectedClip ==
    /\ clips' = SelectSeq(clips, LAMBDA c : ~c.selected)
    /\ lastOp' = [name |-> "delete"]
    /\ UNCHANGED <<tracks, markers, currentTime, duration, zoom, nextId, dragState,
                   snapLine, freeze, rampVars,
                   sessionVars>>

\* part1 = { ...selectedClip, duration: splitPoint, selected: false }
SplitPart1(selectedClip, splitPoint) ==
    [selectedClip EXCEPT !.duration = splitPoint, !.selected = FALSE]

SplitPart2KeepsInPoint(selectedClip, splitPoint, id, startOffset, selected) ==
    [selectedClip EXCEPT !.id = id, !.startOffset = startOffset,
                         !.duration = selectedClip.duration - splitPoint,
                         !.selected = selected]

\* part2 = { ...selectedClip, id, startOffset, sourceStart: sourceStart + splitPoint,
\*           duration: duration - splitPoint, selected }
SplitPart2(selectedClip, splitPoint, id, startOffset, selected) ==
    [selectedClip EXCEPT !.id = id, !.startOffset = startOffset,
                         !.sourceStart = selectedClip.sourceStart + splitPoint,
                         !.duration = selectedClip.duration - splitPoint,
                         !.selected = selected]

\* splitClip
splitClip ==
    /\ nextId < MaxClips
    /\ SelectedIndex(clips) # 0
    /\ LET selectedClip == clips[SelectedIndex(clips)]
           splitPoint == currentTime - selectedClip.startOffset
       IN  /\ ~(currentTime <= selectedClip.startOffset)
           /\ ~(currentTime >= ClipEnd(selectedClip))
           /\ clips' = SelectSeq(clips, LAMBDA c : c.id # selectedClip.id)
                       \o << SplitPart1(selectedClip, splitPoint),
                             [SplitPart2(selectedClip, splitPoint, FreshId(1),
                                         currentTime, TRUE)
                                 EXCEPT !.transition = NoTransition] >>
           /\ lastOp' = [name |-> "split", before |-> clips, selected |-> selectedClip,
                         t |-> currentTime]
    /\ nextId' = nextId + 1
    /\ UNCHANGED <<tracks, markers, currentTime, duration, zoom, dragState, snapLine,
                   freeze, rampVars,
                   sessionVars>>

\* handleFreezeFrame up to video.currentTime = ...: the closure the onseeked
\* callback runs in keeps the project of this render and the selected clip.
handleFreezeFrame ==
    /\ ~freeze.pending
    /\ nextId + 2 <= MaxClips
    /\ SelectedVideoIndex(clips) # 0
    /\ LET selectedClip == clips[SelectedVideoIndex(clips)]
       IN  /\ ~(currentTime < selectedClip.startOffset)
           /\ ~(currentTime > ClipEnd(selectedClip))
           /\ freeze' = [pending |-> TRUE, selectedClip |-> selectedClip,
                         currentTime |-> currentTime, clips |-> clips]
    /\ lastOp' = [name |-> "freeze-request"]
    /\ UNCHANGED <<tracks, clips, markers, currentTime, duration, zoom, nextId,
                   dragState, snapLine, rampVars,
                   sessionVars>>

\* c.startOffset >= project.currentTime + 2: the clips the ripple shifts
Rippled(c, t) == c.startOffset >= t + FreezeDuration

\* video.onseeked
FreezeSeeked ==
    /\ freeze.pending
    /\ LET selectedClip == freeze.selectedClip
           t == freeze.currentTime
           newImageClip == Clip(FreshId(1), "image", selectedClip.trackId, t,
                                FreezeDuration, 0, TRUE, NoProperties)
           originalEnd == ClipEnd(selectedClip)
           splitPoint == t - selectedClip.startOffset
           part1 == SplitPart1(selectedClip, splitPoint)
           part2 == SplitPart2(selectedClip, splitPoint, FreshId(2),
                               t + FreezeDuration, FALSE)
           others == SelectSeq(clips, LAMBDA c : c.id # selectedClip.id)
           later == SelectSeq(others, LAMBDA c : Rippled(c, t))
       IN  /\ clips' = SelectSeq(others, LAMBDA c : ~Rippled(c, t))
                       \o << part1, newImageClip, part2 >>
                       \o [i \in DOMAIN later |->
                              [later[i] EXCEPT !.startOffset = @ + FreezeDuration]]
           /\ duration' = Max(duration, originalEnd + FreezeDuration)
           /\ lastOp' = [name |-> "freeze", before |-> clips, seen |-> freeze.clips,
                         selected |-> selectedClip, t |-> t]
    /\ nextId' = nextId + 2
    /\ freeze' = NoFreeze
    /\ UNCHANGED <<tracks, markers, currentTime, zoom, dragState, snapLine, rampVars,
                   sessionVars>>

-----------------------------------------------------------------------------
(* Edits on a project with a selected video clip on Video 1 and a second   *)
(* clip: on Audio 1, starting before, inside or after the 2 s the freeze   *)
(* frame inserts, or on Video 1 right after the selected clip.             *)

EditClipLists ==
    { << Clip(1, "video", "1", 20, 120, 10, TRUE, DefaultProperties),
         Clip(2, "audio", "3", b, 30, 0, FALSE, DefaultProperties) >>
      : b \in {0, 80, 160} }
    \cup
    { << Clip(1, "video", "1", 20, 120, 10, TRUE, DefaultProperties),
         Clip(2, "video", "1", 140, 30, 0, FALSE, DefaultProperties) >> }

SeekTimes == {20, 21, 130, 140}

InitEdit ==
    /\ IdleProject
    /\ clips \in EditClipLists
    /\ nextId = 2
    /\ markers = <<>>
    /\ currentTime = 0

NextEdit ==
    \/ \E time \in SeekTimes : handleSeek(time)
    \/ \E i \in DOMAIN clips : handleSelectClip(clips[i].id)
    \/ deleteSelectedClip
    \/ splitClip
    \/ handleFreezeFrame
    \/ FreezeSeeked

Spec == InitEdit /\ [][NextEdit]_vars

-----------------------------------------------------------------------------
(* Properties of split and freeze-frame.                                   *)

ClipIds(cs) == {cs[i].id : i \in DOMAIN cs}

ClipById(cs, id) == cs[ClipIndexById(cs, id)]

\* The clips of cs other than the one with this id, in order.
OtherClips(cs, id) == SelectSeq(cs, LAMBDA c : c.id # id)

\* C2: splitClip with the playhead t strictly inside the selected clip
\* [s, s+d) replaces it by exactly two clips that partition its interval:
\* part1 keeps id, startOffset and sourceStart with duration t-s; part2 has a
\* new id, startOffset t, sourceStart advanced by t-s and duration s+d-t;
\* the durations add up to d and every other clip is unchanged.
C2_SplitPartitionsClip ==
    lastOp.name = "split" =>
        LET sel == lastOp.selected
            t == lastOp.t
            s == sel.startOffset
            d == sel.duration
            newIds == ClipIds(clips) \ ClipIds(lastOp.before)
        IN  /\ s < t /\ t < s + d
            /\ Len(clips) = Len(lastOp.before) + 1
            /\ Cardinality(ClipIds(clips)) = Len(clips)
            /\ Cardinality(newIds) = 1
            /\ sel.id \in ClipIds(clips)
            /\ LET part1 == ClipById(clips, sel.id)
                   part2 == ClipById(clips, CHOOSE id \in newIds : TRUE)
               IN  /\ part1.startOffset = s
                   /\ part1.sourceStart = sel.sourceStart
                   /\ part1.duration = t - s
                   /\ part2.startOffset = t
                   /\ part2.sourceStart = sel.sourceStart + (t - s)
                   /\ part2.duration = s + d - t
                   /\ part1.duration + part2.duration = d
                   /\ part1.trackId = sel.trackId /\ part2.trackId = sel.trackId
                   /\ part1.type = sel.type /\ part2.type = sel.type
                   /\ OtherClips(OtherClips(clips, sel.id), part2.id)
                          = OtherClips(lastOp.before, sel.id)

\* C2 witness: a split happened in a project that holds another clip.
C2_Witness ==
    /\ lastOp.name = "split"
    /\ Len(lastOp.before) >= 2
    /\ lastOp.selected.sourceStart > 0

\* C5: freeze-frame at playhead t inside the selected video clip [s, e), with
\* no edit between the request and the capture, leaves the original
\* truncated to [s, t), a new 2 s image clip at [t, t+2) on the same track,
\* the remainder at [t+2, e+2) with sourceStart advanced by t-s, every other
\* clip that started at or after t moved forward by 2 s and every clip that
\* started before t where it was.
C5_FreezeFrameRipplesFromPlayhead ==
    (/\ lastOp.name = "freeze"
     /\ lastOp.before = lastOp.seen
     /\ lastOp.selected.startOffset <= lastOp.t
     /\ lastOp.t < ClipEnd(lastOp.selected)) =>
        LET sel == lastOp.selected
            t == lastOp.t
            s == sel.startOffset
            e == ClipEnd(sel)
            old == OtherClips(lastOp.before, sel.id)
        IN  /\ \E i \in DOMAIN clips :
                   /\ clips[i].id = sel.id
                   /\ clips[i].startOffset = s /\ clips[i].duration = t - s
            /\ \E i \in DOMAIN clips :
                   /\ clips[i].id \notin ClipIds(lastOp.before)
                   /\ clips[i].type = "image" /\ clips[i].trackId = sel.trackId
                   /\ clips[i].startOffset = t /\ clips[i].duration = FreezeDuration
            /\ \E i \in DOMAIN clips :
                   /\ clips[i].id \notin ClipIds(lastOp.before)
                   /\ clips[i].type = sel.type /\ clips[i].trackId = sel.trackId
                   /\ clips[i].startOffset = t + FreezeDuration
                   /\ clips[i].duration = e - t
                   /\ clips[i].sourceStart = sel.sourceStart + (t - s)
            /\ \A j \in DOMAIN old :
                   /\ old[j].id \in ClipIds(clips)
                   /\ ClipById(clips, old[j].id).startOffset =
                          IF old[j].startOffset >= t
                          THEN old[j].startOffset + FreezeDuration
                          ELSE old[j].startOffset

\* C16: after any edit, split and freeze-frame at any playhead they accept
\* included, every clip of the project has duration >= 0.1 s.
C16_EveryClipKeepsMinimumDuration ==
    \A i \in DOMAIN clips : clips[i].duration >= MinDuration

\* the clip the freeze frame was requested for, as it is when the capture
\* completes, without its selection flag: <<>> when it has been deleted
FrozenClipNow ==
    IF lastOp.selected.id \in ClipIds(lastOp.before)
    THEN << [ClipById(lastOp.before, lastOp.selected.id) EXCEPT !.selected = TRUE] >>
    ELSE <<>>

\* C26: the freeze frame is applied to the project as it is when the capture
\* completes: a clip deleted since the request is not re-created, the split
\* is made of the clip as it is now and at the present playhead, and at most
\* one clip is selected afterwards.
C26_FreezeAppliesToCurrentState ==
    lastOp.name = "freeze" =>
        /\ FrozenClipNow = <<>> => lastOp.selected.id \notin ClipIds(clips)
        /\ FrozenClipNow # <<>> => FrozenClipNow[1] = lastOp.selected
        /\ lastOp.t = currentTime
        /\ Cardinality({i \in DOMAIN clips : clips[i].selected}) <= 1

-----------------------------------------------------------------------------
(* Player: which clips are drawn and heard at the playhead.                *)

\* c.properties.key ?? default
PropOr(c, key, default) ==
    IF key \in DOMAIN c.properties THEN c.properties[key] ELSE default

\* projectState.tracks.some(t => t.isSolo)
AnySolo(ts) == \E i \in DOMAIN ts : ts[i].isSolo

IsActiveAtInclusiveEnd(c, t) == t >= c.startOffset /\ t <= c.startOffset + c.duration

\* currentTime >= c.startOffset && currentTime < c.startOffset + c.duration
IsActiveAt(c, t) == t >= c.startOffset /\ t < c.startOffset + c.duration

\* if (!track || (anySolo && !track.isSolo)) return false
TrackShows(ts, c) ==
    LET i == TrackIndexById(ts, c.trackId)
    IN  i # 0 /\ ~(AnySolo(ts) /\ ~ts[i].isSolo)

\* Array.prototype.sort with comparator key(a) - key(b): stable, ascending.
\* The entries are [key, val] pairs.
RECURSIVE InsertByKey(_, _)
InsertByKey(sorted, x) ==
    IF sorted = <<>> THEN <<x>>
    ELSE IF sorted[Len(sorted)].key <= x.key THEN Append(sorted, x)
    ELSE Append(InsertByKey(SubSeq(sorted, 1, Len(sorted) - 1), x),
                sorted[Len(sorted)])

RECURSIVE SortFrom(_, _, _)
SortFrom(sorted, s, i) ==
    IF i > Len(s) THEN sorted
    ELSE SortFrom(InsertByKey(sorted, s[i]), s, i + 1)

KeepArrayOrder(keyed) == [i \in DOMAIN keyed |-> keyed[i].val]

\* Array.prototype.sort on the compare keys: stable
StableSortBy(keyed) ==
    LET sorted == SortFrom(<<>>, keyed, 1)
    IN  [i \in DOMAIN sorted |-> sorted[i].val]

\* getActiveVisualClips: filter, then sort by trackOrder.indexOf(trackId)
getActiveVisualClips(ts, cs, t) ==
    LET shown == SelectSeq(cs, LAMBDA c : TrackShows(ts, c)
                                          /\ c.type \in {"video", "image"}
                                          /\ IsActiveAt(c, t))
    IN  StableSortBy([i \in DOMAIN shown |->
                         [key |-> TrackIndexById(ts, shown[i].trackId),
                          val |-> shown[i]]])

\* getActiveTextClips: sorted by descending track index
getActiveTextClips(ts, cs, t) ==
    LET shown == SelectSeq(cs, LAMBDA c : TrackShows(ts, c) /\ c.type = "text"
                                          /\ IsActiveAt(c, t))
    IN  StableSortBy([i \in DOMAIN shown |->
                         [key |-> 0 - TrackIndexById(ts, shown[i].trackId),
                          val |-> shown[i]]])

AudibleClipsWithVisuals(ts, cs, t) ==
    SelectSeq(cs, LAMBDA c : c.type \in {"audio", "video"} /\ IsActiveAt(c, t))

\* getAudibleOnlyClips(visualClipIds)
getAudibleOnlyClips(ts, cs, t) ==
    LET visualClipIds == ClipIds(getActiveVisualClips(ts, cs, t))
    IN  SelectSeq(cs, LAMBDA c : c.id \notin visualClipIds
                                 /\ c.type \in {"audio", "video"} /\ IsActiveAt(c, t))

TrackMutedIgnoringSolo(ts, c) ==
    LET i == TrackIndexById(ts, c.trackId)
    IN  IF i # 0 THEN ts[i].isMuted ELSE FALSE

\* isMuted = track ? (track.isMuted || (anySolo && !track.isSolo)) : false
TrackMuted(ts, c) ==
    LET i == TrackIndexById(ts, c.trackId)
    IN  IF i # 0 THEN ts[i].isMuted \/ (AnySolo(ts) /\ ~ts[i].isSolo) ELSE FALSE

\* Math.min(1, Math.max(0, (props.volume ?? 100) / 100)), in hundredths
ClampedVolume(c) == Min(100, Max(0, PropOr(c, "volume", 100)))

\* video.volume = isMuted || props.reversed || isRamping ? 0 : ...
\* (the video sync effect, for the video clips of the visual list)
VideoElementVolume(ts, c) ==
    IF TrackMuted(ts, c) \/ PropOr(c, "reversed", FALSE) \/ PropOr(c, "rampEnabled", FALSE)
    THEN 0
    ELSE ClampedVolume(c)

\* audio.volume = isMuted || props.reversed || isRamping ? 0 : ...
\* (AudioTrackPlayer, mounted for the audible-only clips)
AudioTrackPlayerVolume(ts, c) ==
    IF TrackMuted(ts, c) \/ PropOr(c, "reversed", FALSE) \/ PropOr(c, "rampEnabled", FALSE)
    THEN 0
    ELSE ClampedVolume(c)

\* The clips that have a media element playing sound at t, each with the
\* volume its effect sets, in hundredths.
MediaVolumes(ts, cs, t) ==
    LET visual == getActiveVisualClips(ts, cs, t)
        audible == getAudibleOnlyClips(ts, cs, t)
    IN  {[id |-> visual[i].id, path |-> "video", volume |-> VideoElementVolume(ts, visual[i])]
            : i \in {j \in DOMAIN visual : visual[j].type = "video"}}
        \cup
        {[id |-> audible[i].id, path |-> "audio",
          volume |-> AudioTrackPlayerVolume(ts, audible[i])] : i \in DOMAIN audible}

\* Bound on the number of mute and solo flags set at once.
MaxFlags == 2

FlagsSet(ts) ==
    Cardinality({i \in DOMAIN ts : ts[i].isMuted}) + Cardinality({i \in DOMAIN ts : ts[i].isSolo})

PlayerFrame ==
    UNCHANGED <<markers, duration, zoom, nextId, dragState, snapLine, freeze, rampVars,
                   sessionVars>>

\* toggleTrackMute
toggleTrackMute ==
    \E i \in DOMAIN tracks :
        /\ tracks' = [tracks EXCEPT ![i].isMuted = ~@]
        /\ FlagsSet(tracks') <= MaxFlags
        /\ lastOp' = [name |-> "mute"]
        /\ UNCHANGED <<clips, currentTime>>
        /\ PlayerFrame

\* toggleTrackSolo
toggleTrackSolo ==
    \E i \in DOMAIN tracks :
        /\ tracks' = [tracks EXCEPT ![i].isSolo = ~@]
        /\ FlagsSet(tracks') <= MaxFlags
        /\ lastOp' = [name |-> "solo"]
        /\ UNCHANGED <<clips, currentTime>>
        /\ PlayerFrame

\* Inspector updateProp('volume', v) on the selected clip; the slider runs 0..200
VolumeSliderMax == 200

SliderVolumes == {0, 150, VolumeSliderMax}

updateVolume ==
    \E v \in SliderVolumes :
        /\ SelectedIndex(clips) # 0
        /\ LET clip == clips[SelectedIndex(clips)]
           IN  /\ clip.type \in {"audio", "video"}
               /\ clips' = updateClip(clips, clip.id,
                               [properties |->
                                   [k \in DOMAIN clip.properties \cup {"volume"} |->
                                       IF k = "volume" THEN v ELSE clip.properties[k]]])
        /\ lastOp' = [name |-> "volume"]
        /\ UNCHANGED <<tracks, currentTime>>
        /\ PlayerFrame

-----------------------------------------------------------------------------
(* The player on projects of two clips: back to back, on two tracks in     *)
(* either array order, overlapping on one track, on the two audio tracks,  *)
(* under a title.                                                          *)
(* The first clip is selected and carries one of several property bags.    *)

PlayerPropertyBags ==
    { DefaultProperties, NoProperties,
      [volume |-> 100, reversed |-> TRUE, rampEnabled |-> FALSE],
      [volume |-> 100, reversed |-> FALSE, rampEnabled |-> TRUE] }

PlayerClipLists ==
    { << Clip(1, "video", "1", 0, 40, 0, TRUE, bag),
         Clip(2, "video", "1", 40, 40, 0, FALSE, DefaultProperties) >>
      : bag \in PlayerPropertyBags }
    \cup
    { << Clip(1, "video", "2", 20, 40, 0, TRUE, bag),
         Clip(2, "video", "1", 0, 40, 0, FALSE, DefaultProperties) >>
      : bag \in PlayerPropertyBags }
    \cup
    { << Clip(1, "video", "1", 0, 40, 0, TRUE, bag),
         Clip(2, "image", "2", 20, 40, 0, FALSE, NoProperties) >>
      : bag \in PlayerPropertyBags }
    \cup
    { << Clip(1, "video", "1", 0, 40, 0, TRUE, bag),
         Clip(2, "video", "1", 20, 40, 0, FALSE, DefaultProperties) >>
      : bag \in PlayerPropertyBags }
    \cup
    { << Clip(1, "audio", "3", 0, 80, 0, TRUE, bag),
         Clip(2, "audio", "4", 20, 40, 0, FALSE, DefaultProperties) >>
      : bag \in PlayerPropertyBags }
    \cup
    { << Clip(1, "audio", "3", 0, 80, 0, TRUE, bag),
         Clip(2, "text", "t1", 0, 40, 0, FALSE, NoProperties) >>
      : bag \in PlayerPropertyBags }
    \cup
    { << Clip(1, "video", "1", 0, 40, 0, TRUE, DefaultProperties),
         Clip(2, "text", "t1", 20, 40, 0, FALSE, NoProperties) >> }

PlayerSeekTimes == {0, 20, 40, 60}

InitPlayer ==
    /\ IdleProject
    /\ clips \in PlayerClipLists
    /\ nextId = 2
    /\ markers = <<>>
    /\ currentTime = 0

NextPlayer ==
    \/ \E time \in PlayerSeekTimes : handleSeek(time)
    \/ toggleTrackMute
    \/ toggleTrackSolo
    \/ updateVolume

SpecPlayer == InitPlayer /\ [][NextPlayer]_vars

-----------------------------------------------------------------------------
(* Properties of the player.                                               *)

TrackOf(c) == tracks[TrackIndexById(tracks, c.trackId)]

VisualNow == getActiveVisualClips(tracks, clips, currentTime)

SoloSuppressed(c) == AnySolo(tracks) /\ ~TrackOf(c).isSolo

TracksUnmuted == [i \in DOMAIN tracks |-> [tracks[i] EXCEPT !.isMuted = FALSE]]

\* C3: a clip is in the player's visual list iff its type is video or image,
\* startOffset <= t < startOffset + duration and its track is not
\* solo-suppressed; the mute flags never change the list; two back-to-back
\* clips on one track are never both in the list at their shared boundary.
C3_VisualListMembership ==
    /\ \A i \in DOMAIN clips :
           clips[i].id \in ClipIds(VisualNow) <=>
               /\ clips[i].type \in {"video", "image"}
               /\ clips[i].startOffset <= currentTime
               /\ currentTime < clips[i].startOffset + clips[i].duration
               /\ ~SoloSuppressed(clips[i])
    /\ Len(VisualNow) = Cardinality(ClipIds(VisualNow))
    /\ getActiveVisualClips(TracksUnmuted, clips, currentTime) = VisualNow
    /\ \A i, j \in DOMAIN clips :
           (/\ clips[i].trackId = clips[j].trackId
            /\ ClipEnd(clips[i]) = clips[j].startOffset
            /\ currentTime = clips[j].startOffset)
           => ~(clips[i].id \in ClipIds(VisualNow) /\ clips[j].id \in ClipIds(VisualNow))

\* C3 witness: the playhead is on the boundary of two back-to-back clips on a
\* muted track; the second is drawn and the first is not.
C3_Witness ==
    /\ Len(clips) = 2
    /\ clips[1].trackId = clips[2].trackId
    /\ ClipEnd(clips[1]) = clips[2].startOffset
    /\ currentTime = clips[2].startOffset
    /\ TrackOf(clips[1]).isMuted
    /\ ClipIds(VisualNow) = {clips[2].id}

Ascending(list) ==
    \A i, j \in DOMAIN list :
        i < j => TrackIndexById(tracks, list[i].trackId)
                     <= TrackIndexById(tracks, list[j].trackId)

Reordered(perm) == [i \in DOMAIN clips |-> clips[perm[i]]]

\* C4 as stated: the visual list is in ascending track order and is the same
\* list, in the same order, whatever the order of the clips array.
C4_OrderIndependentOfClipsArray ==
    /\ Ascending(VisualNow)
    /\ \A perm \in Permutations(DOMAIN clips) :
           getActiveVisualClips(tracks, Reordered(perm), currentTime) = VisualNow

\* C4 as amended: the visual list is in ascending track order (a clip on a
\* later track is drawn above a clip on an earlier track); reordering the
\* clips array changes neither the clips drawn nor the order between clips on
\* different tracks, and clips on one track are drawn in clips-array order.
C4_OrderedByTrackThenArray ==
    /\ Ascending(VisualNow)
    /\ \A perm \in Permutations(DOMAIN clips) :
           LET cs == Reordered(perm)
               list == getActiveVisualClips(tracks, cs, currentTime)
           IN  /\ ClipIds(list) = ClipIds(VisualNow)
               /\ Len(list) = Len(VisualNow)
               /\ Ascending(list)
               /\ \A i, j \in DOMAIN list :
                      (i < j /\ list[i].trackId = list[j].trackId)
                      => ClipIndexById(cs, list[i].id) < ClipIndexById(cs, list[j].id)

\* C4 witness: two clips are drawn, the one that comes first in the clips
\* array on the later track.
C4_Witness ==
    /\ Len(clips) = 2
    /\ Len(VisualNow) = 2
    /\ TrackIndexById(tracks, clips[1].trackId) > TrackIndexById(tracks, clips[2].trackId)
    /\ VisualNow = <<clips[2], clips[1]>>

SoundClips ==
    {i \in DOMAIN clips : clips[i].type \in {"audio", "video"}
                          /\ IsActiveAt(clips[i], currentTime)}

VolumesNow == MediaVolumes(tracks, clips, currentTime)

VolumeOf(c) == (CHOOSE m \in VolumesNow : m.id = c.id).volume

Silenced(c) ==
    \/ TrackOf(c).isMuted
    \/ SoloSuppressed(c)
    \/ PropOr(c, "reversed", FALSE)
    \/ PropOr(c, "rampEnabled", FALSE)

\* C7: every active audio or video clip has one media element, and its
\* volume is 0 whenever the clip's track is muted, or some track is soloed
\* and its own is not, or the clip is reversed, or its speed ramp is enabled;
\* with Audio 2 soloed and Audio 1 unmuted every active Audio 1 clip has
\* volume 0.
C7_SilencedClipsHaveZeroGain ==
    /\ \A i \in SoundClips :
           /\ Cardinality({m \in VolumesNow : m.id = clips[i].id}) = 1
           /\ Silenced(clips[i]) => VolumeOf(clips[i]) = 0
    /\ (tracks[5].isSolo /\ ~tracks[4].isSolo /\ ~tracks[4].isMuted)
       => \A i \in SoundClips : clips[i].trackId = tracks[4].id => VolumeOf(clips[i]) = 0

\* C7 witness: Audio 2 is soloed, Audio 1 is neither muted nor soloed, and an
\* Audio 1 clip at full volume, not reversed, not ramped is active.
C7_Witness ==
    /\ tracks[5].isSolo /\ ~tracks[4].isSolo /\ ~tracks[4].isMuted
    /\ \E i \in SoundClips :
           /\ clips[i].trackId = tracks[4].id
           /\ clips[i].properties = DefaultProperties
           /\ VolumeOf(clips[i]) = 0

\* C8: for every active clip that is not muted, not solo-suppressed, not
\* reversed and not speed-ramped, the gain is clamp(volume ?? 100, 0, 200)/100
\* for every volume the Inspector can set (in hundredths here).
C8_GainFollowsVolumeUpTo200 ==
    \A i \in SoundClips :
        ~Silenced(clips[i]) =>
            VolumeOf(clips[i]) = Max(0, Min(VolumeSliderMax, PropOr(clips[i], "volume", 100)))

-----------------------------------------------------------------------------
(* The speed-ramp resolver applied to bounded inputs.                      *)

InitRamp ==
    /\ IdleEditor
    /\ clips = <<>>
    /\ markers = <<>>
    /\ currentTime = 0
    /\ nextId = 0
    /\ rampCall \in [progress : RampGrid, timelineDuration : RampDurations,
                     points : PointLists]
    /\ rampRet = NoRet

\* One evaluation of both resolver functions on the same arguments.
EvalRamp ==
    /\ ~rampRet.done
    /\ rampRet' = [done |-> TRUE,
                   sourceTime |-> calculateSourceTimeAtProgress(
                       rampCall.progress, rampCall.timelineDuration, rampCall.points),
                   rampedDuration |-> calculateRampedSourceDuration(
                       rampCall.timelineDuration, rampCall.points)]
    /\ UNCHANGED <<rampCall, projectVars, sessionVars>>

NextRamp == EvalRamp

SpecRamp == InitRamp /\ [][NextRamp]_vars

-----------------------------------------------------------------------------
(* Properties of the speed-ramp resolver.                                  *)

\* Speed at x on the straight line from p1 to p2, p1.time < p2.time.
LineSpeedAt(p1, p2, x) ==
    RAdd(p1.speed, RMul(RSub(p2.speed, p1.speed),
                        RDiv(RSub(x, p1.time), RSub(p2.time, p1.time))))

\* Integral of the speed over the part of [p1.time, p2.time] below progress.
SegmentIntegral(p1, p2, progress) ==
    IF RLe(progress, p1.time) THEN RZero
    ELSE LET upTo == IF RLt(progress, p2.time) THEN progress ELSE p2.time
         IN  RMul(RSub(upTo, p1.time),
                  RHalf(RAdd(p1.speed, LineSpeedAt(p1, p2, upTo))))

RECURSIVE SumSegments(_, _, _)
SumSegments(i, points, progress) ==
    IF i >= Len(points) THEN RZero
    ELSE RAdd(SegmentIntegral(points[i], points[i + 1], progress),
              SumSegments(i + 1, points, progress))

TrapezoidIntegral(progress, timelineDuration, points) ==
    RMul(timelineDuration, SumSegments(1, points, progress))

SpansUnitInterval(points) ==
    /\ Len(points) >= 2
    /\ points[1].time = RZero
    /\ points[Len(points)].time = ROne
    /\ \A i \in 1..(Len(points) - 1) : RLt(points[i].time, points[i + 1].time)

ExampleCall ==
    [progress |-> Rat(1, 2), timelineDuration |-> RInt(10),
     points |-> <<[time |-> RZero, speed |-> RInt(1)],
                  [time |-> Rat(1, 2), speed |-> RInt(2)],
                  [time |-> ROne, speed |-> RInt(1)]>>]

\* C9: for control points with strictly increasing times spanning 0..1 and
\* progress p in [0,1], calculateSourceTimeAtProgress(p, D, points) is D times
\* the integral of the piecewise-linear speed over [0,p]; for points
\* [(0,1),(0.5,2),(1,1)], D = 10, p = 0.5 it is 7.5.
C9_SourceTimeIsTrapezoidIntegral ==
    (rampRet.done /\ SpansUnitInterval(rampCall.points)) =>
        /\ rampRet.sourceTime = TrapezoidIntegral(rampCall.progress,
                                    rampCall.timelineDuration, rampCall.points)
        /\ rampCall = ExampleCall => rampRet.sourceTime = Rat(15, 2)

\* C9 witness: the example call has been evaluated and gave 7.5.
C9_Witness ==
    /\ rampRet.done
    /\ rampCall = ExampleCall
    /\ rampRet.sourceTime = Rat(15, 2)

\* C10: for every timeline duration and every control-point list sorted by
\* non-decreasing time, lists with two points at one time included,
\* calculateSourceTimeAtProgress(1, D, points) equals
\* calculateRampedSourceDuration(D, points).
C10_SourceTimeAtEndIsRampedDuration ==
    (rampRet.done /\ rampCall.progress = ROne) =>
        rampRet.sourceTime = rampRet.rampedDuration

\* C10 witness: an evaluated call at progress 1 on three points, two of them
\* at one time, that consumes source time.
C10_Witness ==
    /\ rampRet.done
    /\ rampCall.progress = ROne
    /\ Len(rampCall.points) = 3
    /\ \E i \in 1..2 : rampCall.points[i].time = rampCall.points[i + 1].time
    /\ RLt(RZero, rampRet.rampedDuration)
    /\ rampRet.sourceTime = rampRet.rampedDuration

-----------------------------------------------------------------------------
(* Transitions: how they are set and how the player and the exporter       *)
(* resolve them.                                                           *)

TransitionTypes == {"fade", "dissolve", "slide-left", "slide-right", "zoom", "wipe"}

\* handleApplyTransition gives a dropped transition 1.0 s
DefaultTransitionDuration == 20

\* The Inspector's Duration slider: min 0.1, max 3, step 0.1
TransitionDurationMin == 2

TransitionDurationMax == 60

TransitionDurations ==
    {TransitionDurationMin, DefaultTransitionDuration, TransitionDurationMax}

NoTransform == [op |-> "none"]

NoClipPath == [set |-> FALSE]

\* { opacity: 1 }
NeutralStyle == [opacity |-> ROne, transform |-> NoTransform, clipPath |-> NoClipPath]

\* The switch on clip.transition.type, shared by the player and the exporter.
StyleAtProgress(type, progress) ==
    CASE type \in {"fade", "dissolve"} ->
             [NeutralStyle EXCEPT !.opacity = progress]
      [] type = "slide-left" ->
             [NeutralStyle EXCEPT !.transform =
                 [op |-> "translateX",
                  arg |-> RMul(RSub(ROne, progress), RInt(100))]]
      [] type = "slide-right" ->
             [NeutralStyle EXCEPT !.transform =
                 [op |-> "translateX",
                  arg |-> RSub(RZero, RMul(RSub(ROne, progress), RInt(100)))]]
      [] type = "zoom" ->
             [NeutralStyle EXCEPT !.transform = [op |-> "scale", arg |-> progress]]
      [] type = "wipe" ->
             [NeutralStyle EXCEPT !.clipPath =
                 [set |-> TRUE,
                  right |-> RSub(RInt(100), RMul(progress, RInt(100)))]]
      [] OTHER -> NeutralStyle

\* Player: progress = timeIntoClip / duration
TransitionProgress(clip, t) == Rat(t - clip.startOffset, clip.transition.duration)

\* Exporter: progress = Math.max(0, timeIntoClip / duration)
ExportTransitionProgress(clip, t) ==
    LET progress == Rat(t - clip.startOffset, clip.transition.duration)
    IN  IF RLt(progress, RZero) THEN RZero ELSE progress

TransitionStyleNoEndGuard(clip, t) ==
    IF clip.transition = NoTransition THEN NeutralStyle
    ELSE StyleAtProgress(clip.transition.type, TransitionProgress(clip, t))

\* Player getTransitionStyle(clip) at projectState.currentTime = t
getTransitionStyle(clip, t) ==
    IF clip.transition = NoTransition THEN NeutralStyle
    ELSE IF t - clip.startOffset >= clip.transition.duration THEN NeutralStyle
    ELSE StyleAtProgress(clip.transition.type, TransitionProgress(clip, t))

\* Exporter getTransitionStyle(clip, currentTime)
ExportGetTransitionStyle(clip, t) ==
    IF clip.transition = NoTransition THEN NeutralStyle
    ELSE IF t - clip.startOffset >= clip.transition.duration THEN NeutralStyle
    ELSE StyleAtProgress(clip.transition.type, ExportTransitionProgress(clip, t))

\* Exporter activeClips of the frame at time t
ExportActiveClips(ts, cs, t) ==
    LET active == SelectSeq(cs, LAMBDA c : IsActiveAt(c, t))
    IN  StableSortBy([i \in DOMAIN active |->
                         [key |-> TrackIndexById(ts, active[i].trackId),
                          val |-> active[i]]])

\* handleApplyTransition(clipId, type): a transition dropped on a clip
handleApplyTransition ==
    \E i \in DOMAIN clips, type \in TransitionTypes :
        /\ clips[i].type \in {"video", "image", "text"}
        /\ clips' = updateClip(clips, clips[i].id,
                        [transition |-> Transition(type, DefaultTransitionDuration)])
        /\ lastOp' = [name |-> "applyTransition"]
        /\ UNCHANGED <<tracks, currentTime>>
        /\ PlayerFrame

\* Inspector handleTransitionChange: keeps the duration the clip had
handleTransitionChange ==
    \E type \in TransitionTypes :
        /\ SelectedIndex(clips) # 0
        /\ LET clip == clips[SelectedIndex(clips)]
               dur == IF clip.transition = NoTransition
                      THEN DefaultTransitionDuration ELSE clip.transition.duration
           IN  clips' = updateClip(clips, clip.id,
                            [transition |-> Transition(type, dur)])
        /\ lastOp' = [name |-> "transitionType"]
        /\ UNCHANGED <<tracks, currentTime>>
        /\ PlayerFrame

\* Inspector handleTransitionDurationChange(duration)
handleTransitionDurationChange ==
    \E dur \in TransitionDurations :
        /\ SelectedIndex(clips) # 0
        /\ LET clip == clips[SelectedIndex(clips)]
           IN  /\ clip.transition # NoTransition
               /\ clips' = updateClip(clips, clip.id,
                               [transition |-> [clip.transition EXCEPT !.duration = dur]])
        /\ lastOp' = [name |-> "transitionDuration"]
        /\ UNCHANGED <<tracks, currentTime>>
        /\ PlayerFrame

\* Inspector handleRemoveTransition
handleRemoveTransition ==
    /\ SelectedIndex(clips) # 0
    /\ clips[SelectedIndex(clips)].transition # NoTransition
    /\ clips' = updateClip(clips, clips[SelectedIndex(clips)].id,
                    [transition |-> NoTransition])
    /\ lastOp' = [name |-> "removeTransition"]
    /\ UNCHANGED <<tracks, currentTime>>
    /\ PlayerFrame

\* A video clip under a text clip, and an image clip beside a video clip.
TransitionClipLists ==
    { << Clip(1, "video", "1", 20, 40, 0, TRUE, DefaultProperties),
         Clip(2, "text", "t1", 30, 80, 0, FALSE, NoProperties) >>,
      << Clip(1, "image", "2", 0, 40, 0, TRUE, NoProperties),
         Clip(2, "audio", "3", 20, 40, 0, FALSE, DefaultProperties) >> }

TransitionSeekTimes == {0, 20, 21, 30, 40, 60, 80}

InitTransition ==
    /\ IdleProject
    /\ clips \in TransitionClipLists
    /\ nextId = 2
    /\ markers = <<>>
    /\ currentTime = 0

NextTransition ==
    \/ \E time \in TransitionSeekTimes : handleSeek(time)
    \/ \E i \in DOMAIN clips : handleSelectClip(clips[i].id)
    \/ handleApplyTransition
    \/ handleTransitionChange
    \/ handleTransitionDurationChange
    \/ handleRemoveTransition

SpecTransition == InitTransition /\ [][NextTransition]_vars

\* The clips the player renders at the playhead, and the exporter at a frame
\* at the same time.
RenderedLive ==
    Range(VisualNow) \cup Range(getActiveTextClips(tracks, clips, currentTime))

RenderedExport == Range(ExportActiveClips(tracks, clips, currentTime))

InTransition(c, t) ==
    c.transition # NoTransition /\ t - c.startOffset < c.transition.duration

InUnit(r) == RLe(RZero, r) /\ RLe(r, ROne)

StyleInRange(style) ==
    /\ InUnit(style.opacity)
    /\ style.transform.op = "translateX" =>
           /\ RLe(RInt(-100), style.transform.arg)
           /\ RLe(style.transform.arg, RInt(100))
    /\ style.transform.op = "scale" => InUnit(style.transform.arg)
    /\ style.clipPath.set =>
           RLe(RZero, style.clipPath.right) /\ RLe(style.clipPath.right, RInt(100))

\* C11: for every clip the player or the exporter renders at t, the
\* transition progress used lies in [0,1] and so do the opacity, transform
\* and clip region derived from it; with no transition, or with the elapsed
\* time at or beyond the transition duration, the style is neutral.
C11_TransitionProgressInUnitInterval ==
    /\ \A c \in RenderedLive :
           /\ InTransition(c, currentTime) => InUnit(TransitionProgress(c, currentTime))
           /\ StyleInRange(getTransitionStyle(c, currentTime))
           /\ ~InTransition(c, currentTime)
                  => getTransitionStyle(c, currentTime) = NeutralStyle
    /\ \A c \in RenderedExport :
           /\ InTransition(c, currentTime)
                  => InUnit(ExportTransitionProgress(c, currentTime))
           /\ StyleInRange(ExportGetTransitionStyle(c, currentTime))
           /\ ~InTransition(c, currentTime)
                  => ExportGetTransitionStyle(c, currentTime) = NeutralStyle

\* C11 witness: a rendered clip is half way through a slide, and another
\* rendered clip is past the end of its transition.
C11_Witness ==
    /\ \E c \in RenderedLive :
           /\ c.transition # NoTransition /\ c.transition.type = "slide-left"
           /\ TransitionProgress(c, currentTime) = Rat(1, 2)
           /\ getTransitionStyle(c, currentTime).transform.arg = RInt(50)
    /\ \E c \in RenderedLive :
           /\ c.transition # NoTransition
           /\ currentTime - c.startOffset >= c.transition.duration

-----------------------------------------------------------------------------
(* Playback: togglePlay, the playback effect and its animation-frame loop. *)

\* One project snapshot, for comparing ProjectState before and after a step.
ProjectState ==
    [tracks |-> tracks, clips |-> clips, markers |-> markers,
     currentTime |-> currentTime, duration |-> duration, zoom |-> zoom,
     isPlaying |-> isPlaying]

\* Bound on the elapsed time between two animation frames, in ticks.
MaxFrameDelta == 7

FrameDeltas == {MaxFrameDelta, 2 * MaxFrameDelta}

RECURSIVE SumSpeeds(_, _)
SumSpeeds(points, i) ==
    IF i > Len(points) THEN RZero
    ELSE RAdd(points[i].speed, SumSpeeds(points, i + 1))

\* speedMultiplier: the mean speed of the control points of the first
\* selected clip whose speed ramp is enabled, 1.0 otherwise
speedMultiplier(cs) ==
    LET i == FirstIndex({j \in DOMAIN cs :
                            cs[j].selected /\ PropOr(cs[j], "rampEnabled", FALSE)})
        rampPoints == IF i = 0 THEN <<>> ELSE PropOr(cs[i], "rampPoints", <<>>)
    IN  IF Len(rampPoints) > 0
        THEN RDiv(SumSpeeds(rampPoints, 1), RInt(Len(rampPoints)))
        ELSE ROne

AdvanceWithoutStop(nextTime, dur) == [isPlaying |-> TRUE, currentTime |-> nextTime]

\* if (nextTime >= prev.duration) return { isPlaying: false, currentTime: prev.duration }
AdvanceOrStop(nextTime, dur) ==
    IF nextTime >= dur
    THEN [isPlaying |-> FALSE, currentTime |-> dur]
    ELSE [isPlaying |-> TRUE, currentTime |-> nextTime]

TickUpdateWhilePaused(playing, time, dur, advance) == AdvanceOrStop(time + advance, dur)

\* The updater the loop hands to setProject.
TickUpdate(playing, time, dur, advance) ==
    IF ~playing THEN [isPlaying |-> playing, currentTime |-> time]
    ELSE AdvanceOrStop(time + advance, dur)

\* togglePlay
togglePlay ==
    /\ isPlaying' = ~isPlaying
    /\ lastOp' = [name |-> "togglePlay"]
    /\ UNCHANGED <<tracks, clips, markers, currentTime, duration, zoom, nextId,
                   dragState, snapLine, freeze, rampVars, loop, clipboard, frames,
                   extending,
                   exporter, reframing>>

\* The effect on [project.isPlaying, project.duration]: its cleanup cancels
\* the frame the old loop requested last, its body requests a frame when
\* playing.  It runs some time after the render that changed a dependency.
PlaybackEffect ==
    /\ <<loop.playing, loop.duration>> # <<isPlaying, duration>>
    /\ loop' = [playing |-> isPlaying, duration |-> duration, pending |-> isPlaying,
                hasLastTime |-> FALSE]
    /\ UNCHANGED <<tracks, clips, markers, currentTime, duration, zoom, nextId,
                   dragState, snapLine, freeze, lastOp, rampVars, isPlaying,
                   clipboard, frames, extending,
                   exporter, reframing>>

\* loop(time): one animation-frame callback.  The closure's project.isPlaying
\* is the one the effect ran with.
PlaybackTick ==
    \E delta \in FrameDeltas :
        LET advance == RMul(RInt(delta), speedMultiplier(clips))
            next == IF loop.hasLastTime
                    THEN TickUpdate(isPlaying, currentTime, duration, advance.n)
                    ELSE [isPlaying |-> isPlaying, currentTime |-> currentTime]
        IN  /\ loop.pending
            /\ advance.d = 1
            /\ isPlaying' = next.isPlaying
            /\ currentTime' = next.currentTime
            /\ loop' = [loop EXCEPT !.hasLastTime = TRUE, !.pending = loop.playing]
            /\ lastOp' = [name |-> "tick", ran |-> loop.hasLastTime,
                          nextTime |-> currentTime + advance.n,
                          before |-> ProjectState]
            /\ UNCHANGED <<tracks, clips, markers, duration, zoom, nextId, dragState,
                           snapLine, freeze, rampVars, clipboard, frames,
                           extending,
                   exporter, reframing>>

\* The assets of the media library (type and duration, in ticks).
AssetLibrary ==
    { [type |-> "video", duration |-> 100], [type |-> "audio", duration |-> 100],
      [type |-> "image", duration |-> 100] }

\* addToTimeline pads the project to 10 s past the new clip, addTextClip to 5 s
AddPadding == 200

TextPadding == 100

\* a text clip lasts 5 s
TextClipDuration == 100

\* project.tracks.find(t => matches the asset type)?.id || project.tracks[0].id
TrackForAsset(ts, asset) ==
    LET i == FirstIndex({j \in DOMAIN ts :
                 \/ asset.type = "audio" /\ ts[j].type = "audio"
                 \/ asset.type # "audio" /\ ts[j].type = "video"})
    IN  IF i = 0 THEN ts[1].id ELSE ts[i].id

Deselected(cs) == [i \in DOMAIN cs |-> [cs[i] EXCEPT !.selected = FALSE]]

\* addToTimeline(asset)
addToTimeline ==
    \E asset \in AssetLibrary :
        LET newClip == Clip(FreshId(1), asset.type, TrackForAsset(tracks, asset),
                            currentTime, asset.duration, 0, TRUE, DefaultProperties)
        IN  /\ nextId < MaxClips
            /\ clips' = Deselected(clips) \o <<newClip>>
            /\ duration' = Max(duration, ClipEnd(newClip) + AddPadding)
            /\ nextId' = nextId + 1
            /\ lastOp' = [name |-> "add", clipId |-> newClip.id]
            /\ UNCHANGED <<tracks, markers, currentTime, zoom, dragState, snapLine,
                           freeze, rampVars, sessionVars>>

\* A project with one clip left, the playhead near the end; the clip may be
\* selected with its speed ramp enabled, with or without control points.
PlaybackPropertyBags ==
    { DefaultProperties,
      [volume |-> 100, reversed |-> FALSE, rampEnabled |-> TRUE],
      [volume |-> 100, reversed |-> FALSE, rampEnabled |-> TRUE,
       rampPoints |-> <<[time |-> RZero, speed |-> RInt(1)],
                        [time |-> ROne, speed |-> RInt(3)]>>] }

PlaybackClipLists ==
    { << Clip(1, "video", "1", 20, 100, 0, TRUE, bag) >> : bag \in PlaybackPropertyBags }

PlaybackSeekTimes == {590, 700}

InitPlayback ==
    /\ IdleProject
    /\ clips \in PlaybackClipLists
    /\ nextId = MaxClips - 1
    /\ markers = <<>>
    /\ currentTime = 580

NextPlayback ==
    \/ togglePlay
    \/ PlaybackEffect
    \/ PlaybackTick
    \/ \E time \in PlaybackSeekTimes : handleSeek(time)
    \/ addToTimeline

SpecPlayback == InitPlayback /\ [][NextPlayback]_vars

\* C12: in every reachable state 0 <= currentTime <= duration; a tick that
\* runs while playing never decreases currentTime; the tick whose advance
\* reaches or passes the end sets currentTime to exactly the duration and
\* isPlaying to false in the same update, and any other tick while playing
\* advances to the computed time and keeps playing.
C12_PlayheadStaysInProject ==
    /\ 0 <= currentTime /\ currentTime <= duration
    /\ (lastOp.name = "tick" /\ lastOp.ran /\ lastOp.before.isPlaying) =>
           /\ currentTime >= lastOp.before.currentTime
           /\ IF lastOp.nextTime >= lastOp.before.duration
              THEN currentTime = duration /\ ~isPlaying
              ELSE currentTime = lastOp.nextTime /\ isPlaying

\* C12 witness: a tick at ramped speed passed the end of the project and
\* stopped playback on the end.
C12_Witness ==
    /\ lastOp.name = "tick" /\ lastOp.ran /\ lastOp.before.isPlaying
    /\ lastOp.nextTime > lastOp.before.duration
    /\ currentTime = duration
    /\ ~isPlaying

\* C13: a playback tick that finds isPlaying false changes no field of
\* ProjectState, also when its frame was requested before the pause.
C13_PausedTickChangesNothing ==
    (lastOp.name = "tick" /\ ~lastOp.before.isPlaying) => ProjectState = lastOp.before

\* C13 witness: a frame requested while playing fired after the pause, ran
\* the updater and left the project as it was.
C13_Witness ==
    /\ lastOp.name = "tick" /\ lastOp.ran
    /\ ~lastOp.before.isPlaying
    /\ loop.playing
    /\ ProjectState = lastOp.before

-----------------------------------------------------------------------------
(* App: text clips, clipboard and detach-audio; the selection.             *)

\* addTextClip(name, properties)
addTextClip ==
    LET textTrack == FirstIndex({j \in DOMAIN tracks : tracks[j].type = "text"})
        newClip == Clip(FreshId(1), "text", tracks[textTrack].id, currentTime,
                        TextClipDuration, 0, TRUE, NoProperties)
    IN  /\ nextId < MaxClips
        /\ textTrack # 0
        /\ clips' = Deselected(clips) \o <<newClip>>
        /\ duration' = Max(duration, ClipEnd(newClip) + TextPadding)
        /\ nextId' = nextId + 1
        /\ lastOp' = [name |-> "add-text", clipId |-> newClip.id]
        /\ UNCHANGED <<tracks, markers, currentTime, zoom, dragState, snapLine,
                       freeze, rampVars, sessionVars>>

\* handleCopyClip: the selected clip goes to the clipboard
handleCopyClip ==
    /\ SelectedIndex(clips) # 0
    /\ clipboard' = [set |-> TRUE, clip |-> clips[SelectedIndex(clips)]]
    /\ lastOp' = [name |-> "copy"]
    /\ UNCHANGED <<tracks, clips, markers, currentTime, duration, zoom, nextId,
                   dragState, snapLine, freeze, rampVars, isPlaying, loop, frames,
                   extending,
                   exporter, reframing>>

\* targetTrackId: the clipboard clip's own track when its type equals the
\* clip's type, else the first track of that type; 0 when there is none
PasteTargetTrack(ts, clip) ==
    LET originalTrack == TrackIndexById(ts, clip.trackId)
    IN  IF originalTrack # 0 /\ ts[originalTrack].type = clip.type
        THEN originalTrack
        ELSE FirstIndex({j \in DOMAIN ts : ts[j].type = clip.type})

\* handlePasteClip: without a target track it alerts and returns
handlePasteClip ==
    /\ clipboard.set
    /\ IF PasteTargetTrack(tracks, clipboard.clip) = 0
       THEN /\ lastOp' = [name |-> "paste-alert", source |-> clipboard.clip]
            /\ UNCHANGED <<clips, duration, nextId>>
       ELSE LET newClip == [clipboard.clip EXCEPT
                               !.id = FreshId(1), !.startOffset = currentTime,
                               !.trackId =
                                   tracks[PasteTargetTrack(tracks, clipboard.clip)].id,
                               !.selected = TRUE]
            IN  /\ nextId < MaxClips
                /\ clips' = Deselected(clips) \o <<newClip>>
                /\ duration' = Max(duration, ClipEnd(newClip) + AddPadding)
                /\ nextId' = nextId + 1
                /\ lastOp' = [name |-> "paste", clipId |-> newClip.id,
                              source |-> clipboard.clip, before |-> clips]
    /\ UNCHANGED <<tracks, markers, currentTime, zoom, dragState, snapLine, freeze,
                   rampVars, sessionVars>>

\* the properties the detached audio clip keeps: volume ?? 100 and the
\* audio-side properties the video clip has set
DetachedProperties(videoClip) ==
    [k \in {"volume"} \cup (DOMAIN videoClip.properties
                              \cap {"reversed", "rampEnabled", "rampPoints"}) |->
        IF k = "volume" THEN PropOr(videoClip, "volume", 100)
        ELSE videoClip.properties[k]]

\* { ...videoClip.properties, audioSourceEnabled: false }
AudioSourceDisabled(props) ==
    [k \in DOMAIN props \cup {"audioSourceEnabled"} |->
        IF k = "audioSourceEnabled" THEN FALSE ELSE props[k]]

\* handleDetachAudio(clipId)
handleDetachAudio(clipId) ==
    LET i == ClipIndexById(clips, clipId)
        audioTrack == FirstIndex({j \in DOMAIN tracks : tracks[j].type = "audio"})
    IN  /\ nextId < MaxClips
        /\ i # 0
        /\ clips[i].type = "video"
        /\ audioTrack # 0
        /\ LET videoClip == clips[i]
               newAudioClip == [videoClip EXCEPT
                                   !.id = FreshId(1), !.type = "audio",
                                   !.trackId = tracks[audioTrack].id,
                                   !.properties = DetachedProperties(videoClip),
                                   !.transition = NoTransition]
               updatedVideoClip == [videoClip EXCEPT
                                       !.properties = AudioSourceDisabled(@)]
           IN  clips' = SelectSeq(clips, LAMBDA c : c.id # clipId)
                        \o << updatedVideoClip, newAudioClip >>
        /\ nextId' = nextId + 1
        /\ lastOp' = [name |-> "detach", clipId |-> clipId, selected |-> clips[i].selected]
        /\ UNCHANGED <<tracks, markers, currentTime, duration, zoom, dragState,
                       snapLine, freeze, rampVars, sessionVars>>

\* A project with one selected video clip; two more clip ids may be made.
\* A drag touches the selection on mouse down only, so the gesture here is
\* the press and the release; SpecDrag follows the pointer moves.
SelectionSeekTimes == {30}

InitSelection ==
    /\ IdleProject
    /\ clips = << Clip(1, "video", "1", 20, 120, 0, TRUE, DefaultProperties) >>
    /\ nextId = MaxClips - 2
    /\ markers = <<>>
    /\ currentTime = 0

NextSelection ==
    \/ \E time \in SelectionSeekTimes : handleSeek(time)
    \/ addToTimeline
    \/ addTextClip
    \/ \E i \in DOMAIN clips : handleSelectClip(clips[i].id)
    \/ splitClip
    \/ handleFreezeFrame
    \/ FreezeSeeked
    \/ handleCopyClip
    \/ handlePasteClip
    \/ \E i \in DOMAIN clips : handleDetachAudio(clips[i].id)
    \/ deleteSelectedClip
    \/ handleClipMouseDown
    \/ handleGlobalUp

SpecSelection == InitSelection /\ [][NextSelection]_vars

SelectedClips == {i \in DOMAIN clips : clips[i].selected}

\* C14: at most one clip has selected = true after any sequence of
\* add-to-timeline, add-text, select, split, freeze-frame, copy, paste,
\* detach-audio, delete and drag.
C14_AtMostOneSelected == Cardinality(SelectedClips) <= 1

\* C30: after Detach Audio, when the video clip and the new audio clip are
\* both active at the playhead, the video clip's media element has volume 0,
\* so that only the detached audio clip carries the sound.
C30_DetachedVideoIsSilent ==
    lastOp.name = "detach" =>
        LET videoClip == ClipById(clips, lastOp.clipId)
            newAudioClip == ClipById(clips, nextId)
        IN  (IsActiveAt(videoClip, currentTime) /\ IsActiveAt(newAudioClip, currentTime))
                => (CHOOSE m \in MediaVolumes(tracks, clips, currentTime) :
                        m.id = videoClip.id).volume = 0

CompatibleTracks(clip) == {j \in DOMAIN tracks : CanDrop(clip, tracks[j])}

\* the track the pasted clip belongs on: the copied clip's own track when it
\* is there and compatible, else the first compatible track
ExpectedPasteTrack(clip) ==
    LET own == TrackIndexById(tracks, clip.trackId)
    IN  IF own # 0 /\ CanDrop(clip, tracks[own]) THEN own
        ELSE FirstIndex(CompatibleTracks(clip))

\* C21: a paste adds exactly one clip, with a fresh id, at the playhead, on
\* the copied clip's track when that is compatible and else on the first
\* compatible track; it alerts and changes nothing only when the project has
\* no compatible track.
C21_PasteLandsOnCompatibleTrack ==
    /\ lastOp.name = "paste-alert" => CompatibleTracks(lastOp.source) = {}
    /\ lastOp.name = "paste" =>
           /\ Len(clips) = Len(lastOp.before) + 1
           /\ ClipIds(lastOp.before) = ClipIds(clips) \ {lastOp.clipId}
           /\ lastOp.clipId \notin ClipIds(lastOp.before)
           /\ ClipById(clips, lastOp.clipId).startOffset = currentTime
           /\ ClipById(clips, lastOp.clipId).trackId
                  = tracks[ExpectedPasteTrack(lastOp.source)].id

-----------------------------------------------------------------------------
(* Inspector: Smart Extend; the extent of the clips in the project.        *)

\* the Smart Extend slider stands at 2 s when the Inspector mounts
ExtensionDefault == 40

\* the slider positions followed
ExtensionSeconds == {ExtensionDefault}

\* Bound on the duration a clip is extended to.
MaxExtended == 140

\* handleSmartExtend up to the await: the closure keeps the clip of this
\* render and the slider value; the button is disabled while it is pending
handleSmartExtend ==
    \E seconds \in ExtensionSeconds :
        /\ ~extending.pending
        /\ SelectedIndex(clips) # 0
        /\ clips[SelectedIndex(clips)].type \in {"video", "image"}
        /\ clips[SelectedIndex(clips)].duration + seconds <= MaxExtended
        /\ extending' = [pending |-> TRUE, clip |-> clips[SelectedIndex(clips)],
                         seconds |-> seconds]
        /\ lastOp' = [name |-> "extend-request"]
        /\ UNCHANGED <<tracks, clips, markers, currentTime, duration, zoom, nextId,
                       dragState, snapLine, freeze, rampVars, isPlaying, loop,
                       clipboard, frames,
                   exporter, reframing>>

\* generateExtendedFrames resolved with success: onUpdateClip(clip.id,
\* { duration: clip.duration + extensionSeconds, properties: {...} })
SmartExtendDone ==
    /\ extending.pending
    /\ LET clip == extending.clip
           aiExtended == PropOr(clip, "aiExtendedDuration", 0) + extending.seconds
           props == [k \in DOMAIN clip.properties \cup {"aiExtendedDuration"} |->
                        IF k = "aiExtendedDuration" THEN aiExtended
                        ELSE clip.properties[k]]
       IN  /\ clips' = updateClip(clips, clip.id,
                                  [duration |-> clip.duration + extending.seconds,
                                   properties |-> props])
           /\ lastOp' = [name |-> "extend", clipId |-> clip.id,
                         seconds |-> extending.seconds, before |-> clips]
    /\ extending' = NoExtend
    /\ UNCHANGED <<tracks, markers, currentTime, duration, zoom, nextId, dragState,
                   snapLine, freeze, rampVars, isPlaying, loop, clipboard, frames,
                   exporter, reframing>>

\* A 30 s project whose one clip, 5 s of video, was dragged to end 0.5 s
\* before the end of the project.
\* The edits here are the ones that make clips or lengthen them; the pointer
\* gestures, which also go through updateClip, are followed in SpecDrag.
ExtentSeekTimes == {510}

InitExtent ==
    /\ IdleProject
    /\ clips = << Clip(1, "video", "1", 490, 100, 0, TRUE, DefaultProperties) >>
    /\ nextId = MaxClips - 2
    /\ markers = <<>>
    /\ currentTime = 490

NextExtent ==
    \/ \E time \in ExtentSeekTimes : handleSeek(time)
    \/ addToTimeline
    \/ handleCopyClip
    \/ handlePasteClip
    \/ handleSmartExtend
    \/ SmartExtendDone
    \/ handleFreezeFrame
    \/ FreezeSeeked
    \/ splitClip

SpecExtent == InitExtent /\ [][NextExtent]_vars

\* C15: every clip ends within the project, startOffset + duration <=
\* project.duration, after add, paste, move, resize-right, smart-extend,
\* freeze-frame and split.
C15_ClipsEndWithinProject ==
    \A i \in DOMAIN clips : ClipEnd(clips[i]) <= duration

\* C27: a Smart Extend that completes extends the clip as it is at completion:
\* its duration grows by extensionSeconds from the duration it has then,
\* aiExtendedDuration grows by extensionSeconds, and every other property keeps
\* its latest value.
C27_ExtendPreservesEdits ==
    (lastOp.name = "extend" /\ lastOp.clipId \in ClipIds(lastOp.before)) =>
        LET old == ClipById(lastOp.before, lastOp.clipId)
            new == ClipById(clips, lastOp.clipId)
        IN  /\ new.duration = old.duration + lastOp.seconds
            /\ PropOr(new, "aiExtendedDuration", 0)
                  = PropOr(old, "aiExtendedDuration", 0) + lastOp.seconds
            /\ \A k \in DOMAIN old.properties \ {"aiExtendedDuration"} :
                  k \in DOMAIN new.properties /\ new.properties[k] = old.properties[k]

-----------------------------------------------------------------------------
(* Player: the style of every visual clip of a rendered frame.             *)

\* Bound on the number of frames a behaviour keeps.
MaxFrames == 2

\* Math.random(): the draws followed, values of [0, 1)
RandomDraws == {RZero, RHalf(ROne), Rat(3, 4)}

\* flicker = |sin(47 t) * sin(23 t)| > 0.9 with t in seconds: the ticks up
\* to 2 s where it holds (0.90, 1.30 and 1.70 s)
FlickerTicks == {18, 26, 34}

GlitchFlickers(t) == t \in FlickerTicks

\* props.key || default
PropOrDefault(c, key, default) ==
    IF key \in DOMAIN c.properties /\ c.properties[key] # 0
    THEN c.properties[key] ELSE default

\* offset = (Math.random() - 0.5) * span * intensityFactor
GlitchOffset(draw, span, i) ==
    RMul(RMul(RSub(draw, RHalf(ROne)), RInt(span)), Rat(i, 100))

\* the filter functions one effect appends to preKeyingFilter
EffectFilter(e, t, draws) ==
    LET i == e.intensity
    IN  CASE e.type = "blur" -> << [fn |-> "blur", x |-> Rat(i, 5)] >>
          [] e.type = "grayscale" -> << [fn |-> "grayscale", x |-> Rat(i, 100)] >>
          [] e.type = "glitch" ->
                 IF GlitchFlickers(t)
                 THEN LET offsetX == GlitchOffset(draws.x, 15, i)
                          offsetY == GlitchOffset(draws.y, 5, i)
                      IN  << [fn |-> "contrast", x |-> RInt(2)],
                             [fn |-> "saturate", x |-> Rat(1, 5)],
                             [fn |-> "drop-shadow", x |-> offsetX, y |-> offsetY],
                             [fn |-> "drop-shadow", x |-> RSub(RZero, offsetX),
                              y |-> RSub(RZero, offsetY)] >>
                 ELSE <<>>
          [] OTHER -> <<>>

RECURSIVE EffectFilters(_, _, _, _)
EffectFilters(effects, k, t, draws) ==
    IF k > Len(effects) THEN <<>>
    ELSE EffectFilter(effects[k], t, draws) \o EffectFilters(effects, k + 1, t, draws)

\* preKeyingFilter: brightness, contrast and saturate, then the effects
PreKeyingFilter(clip, t, draws) ==
    << [fn |-> "brightness", x |-> Rat(100 + PropOrDefault(clip, "brightness", 0), 100)],
       [fn |-> "contrast", x |-> Rat(100 + PropOrDefault(clip, "contrast", 0), 100)],
       [fn |-> "saturate", x |-> Rat(PropOrDefault(clip, "saturation", 100), 100)] >>
    \o EffectFilters(PropOr(clip, "effects", <<>>), 1, t, draws)

\* the style of the clip at position index of activeVisualClips
ClipStyle(clip, index, t, draws) ==
    LET transitionStyle == getTransitionStyle(clip, t)
    IN  [id |-> clip.id,
         zIndex |-> index,
         scale |-> Rat(PropOrDefault(clip, "scale", 100), 100),
         transform |-> transitionStyle.transform,
         clipPath |-> transitionStyle.clipPath,
         opacity |-> RMul(Rat(PropOr(clip, "opacity", 100), 100),
                          transitionStyle.opacity),
         filter |-> PreKeyingFilter(clip, t, draws)]

\* activeVisualClips.map((clip, index) => ...)
RenderPlan(ts, cs, t, draws) ==
    LET visual == getActiveVisualClips(ts, cs, t)
    IN  [k \in DOMAIN visual |-> ClipStyle(visual[k], k - 1, t, draws)]

\* One render of the Player at the current project state.  The projects
\* followed have one glitch effect at most, which draws twice.
RenderFrame ==
    \E rx \in RandomDraws, ry \in RandomDraws :
        /\ Len(frames) < MaxFrames
        /\ frames' = Append(frames,
                            [tracks |-> tracks, clips |-> clips, t |-> currentTime,
                             plan |-> RenderPlan(tracks, clips, currentTime,
                                                 [x |-> rx, y |-> ry])])
        /\ lastOp' = [name |-> "render"]
        /\ UNCHANGED <<tracks, clips, markers, currentTime, duration, zoom, nextId,
                       dragState, snapLine, freeze, rampVars, isPlaying, loop,
                       clipboard, extending,
                   exporter, reframing>>

RenderEffectLists ==
    { <<>>,
      << [type |-> "blur", intensity |-> 50] >>,
      << [type |-> "glitch", intensity |-> 100] >>,
      << [type |-> "grayscale", intensity |-> 20], [type |-> "glitch", intensity |-> 40] >> }

\* A video clip on Video 1 under an image clip on Video 2 that fades in;
\* the video clip carries the effects.
RenderClipLists ==
    { << Clip(2, "image", "2", 10, 60, 0, FALSE, NoProperties),
         [Clip(1, "video", "1", 0, 100, 0, TRUE,
               [volume |-> 100, opacity |-> 80, effects |-> effects])
             EXCEPT !.transition = Transition("fade", DefaultTransitionDuration)] >>
      : effects \in RenderEffectLists }

RenderSeekTimes == {5, 17, 18, 26}

InitRender ==
    /\ IdleProject
    /\ clips \in RenderClipLists
    /\ nextId = 2
    /\ markers = <<>>
    /\ currentTime = 0

NextRender ==
    \/ \E time \in RenderSeekTimes : handleSeek(time)
    \/ RenderFrame

SpecRender == InitRender /\ [][NextRender]_vars

\* C17: two renders of the same project state at the same t give every clip
\* the same filter, transform, opacity and position in the order.
C17_RenderPlanIsDeterministic ==
    \A i, j \in DOMAIN frames :
        (/\ frames[i].tracks = frames[j].tracks
         /\ frames[i].clips = frames[j].clips
         /\ frames[i].t = frames[j].t) => frames[i].plan = frames[j].plan

-----------------------------------------------------------------------------
(* exportProject against the player: the frame each of them plans.         *)

\* the export draw loop: video, image and text clips of activeClips, in order
ExportDrawnClips(ts, cs, t) ==
    SelectSeq(ExportActiveClips(ts, cs, t),
              LAMBDA c : c.type \in {"video", "image", "text"})

\* audioNode.el.volume = (clip.properties.volume ?? 100) / 100 for the
\* active clips that have an audio element, in hundredths
ExportVolumes(ts, cs, t) ==
    LET active == ExportActiveClips(ts, cs, t)
    IN  {[id |-> active[i].id, volume |-> PropOr(active[i], "volume", 100)]
            : i \in {j \in DOMAIN active : active[j].type \in {"audio", "video"}}}

\* the player: the visual layer, then the text layer above it (its zIndex
\* is activeVisualClips.length); inside the text layer the later child is
\* above
LiveDrawnClips(ts, cs, t) ==
    getActiveVisualClips(ts, cs, t) \o getActiveTextClips(ts, cs, t)

IdsInOrder(list) == [i \in DOMAIN list |-> list[i].id]

LiveGains ==
    {[id |-> m.id, volume |-> m.volume] : m \in MediaVolumes(tracks, clips, currentTime)}

\* C18: the export plans the frame the player plans: the same drawn clips
\* in the same back-to-front order, and the same gain for every sounding
\* clip.
C18_ExportPlansTheLiveFrame ==
    /\ IdsInOrder(ExportDrawnClips(tracks, clips, currentTime))
           = IdsInOrder(LiveDrawnClips(tracks, clips, currentTime))
    /\ ExportVolumes(tracks, clips, currentTime) = LiveGains

TextAboveVisuals(list) ==
    \A i, j \in DOMAIN list :
        (list[i].type = "text" /\ list[j].type \in {"video", "image"}) => i > j

\* C19: in the frame the player draws and in the frame the export draws,
\* every active text clip comes after every active video or image clip, and
\* a drawn text clip is active and not solo-suppressed.
C19_TextDrawnAboveVisuals ==
    /\ TextAboveVisuals(LiveDrawnClips(tracks, clips, currentTime))
    /\ TextAboveVisuals(ExportDrawnClips(tracks, clips, currentTime))
    /\ \A c \in Range(LiveDrawnClips(tracks, clips, currentTime))
                \cup Range(ExportDrawnClips(tracks, clips, currentTime)) :
           c.type = "text" => IsActiveAt(c, currentTime) /\ ~SoloSuppressed(c)

-----------------------------------------------------------------------------
(* The audio path of every sounding clip.                                  *)

\* the video clips of the visual list: their own <video> element sounds
VideoElementIds ==
    {c.id : c \in {v \in Range(VisualNow) : v.type = "video"}}

\* the AudioTrackPlayer components mounted for the clip
AudioTrackPlayers(c) ==
    LET audible == getAudibleOnlyClips(tracks, clips, currentTime)
    IN  Cardinality({i \in DOMAIN audible : audible[i].id = c.id})

\* C20: each active audio or video clip has exactly one audio path: a video
\* clip of the visual list has its video element and no AudioTrackPlayer,
\* every other active audio or video clip has exactly one AudioTrackPlayer;
\* a clip that is not active has none.
C20_OneAudioPathPerClip ==
    \A c \in Range(clips) :
        c.type \in {"audio", "video"} =>
            IF ~IsActiveAt(c, currentTime)
            THEN c.id \notin VideoElementIds /\ AudioTrackPlayers(c) = 0
            ELSE IF c.id \in VideoElementIds
            THEN AudioTrackPlayers(c) = 0
            ELSE AudioTrackPlayers(c) = 1

\* C20 witness: two video clips are active, one drawn and sounding through
\* its video element, the other solo-suppressed and given an
\* AudioTrackPlayer.
C20_Witness ==
    \E c, d \in Range(clips) :
        /\ c.type = "video" /\ d.type = "video"
        /\ IsActiveAt(c, currentTime) /\ IsActiveAt(d, currentTime)
        /\ c.id \in VideoElementIds /\ AudioTrackPlayers(c) = 0
        /\ SoloSuppressed(d) /\ d.id \notin VideoElementIds
        /\ AudioTrackPlayers(d) = 1

-----------------------------------------------------------------------------
(* exportProject: the frame loop and its seek waits.  A frame lasts         *)
(* 1/FRAME_RATE second and a tick 1/TicksPerSecond second, so this section *)
(* counts time in units of 1/(TicksPerSecond * FRAME_RATE) second, in      *)
(* which frame times and clip times are both whole.                        *)

FRAME_RATE == 30

\* a time in ticks, in export units
ExportUnits(ticks) == ticks * FRAME_RATE

\* currentTime = frame / FRAME_RATE, in export units
FrameTime(frame) == frame * TicksPerSecond

\* the 0.1 s of Math.abs(mediaEl.currentTime - sourceTime) > 0.1
SeekThreshold == ExportUnits(TicksPerSecond) \div 10

\* totalFrames = Math.floor(project.duration * FRAME_RATE)
TotalFrames(project) == (project.duration * FRAME_RATE) \div TicksPerSecond

\* the clips of the exported project with their times in export units
ExportTimedClips(cs) ==
    [i \in DOMAIN cs |->
        [cs[i] EXCEPT !.startOffset = ExportUnits(@), !.duration = ExportUnits(@),
                      !.sourceStart = ExportUnits(@)]]

\* Clip.assetId: the media asset a clip plays
WithAsset(assetId, c) == [assetId |-> assetId] @@ c

\* mediaElements: one video element per video asset, keyed by the asset id;
\* onseeked is the promise its handler resolves (<<>> when unset), seeks the
\* number of requested seeks whose seeked event has not fired yet
MediaElements(cs) ==
    [a \in {c.assetId : c \in {d \in Range(cs) : d.type = "video"}} |->
        [currentTime |-> 0, onseeked |-> <<>>, seeks |-> 0]]

\* activeClips.forEach(clip => ...) of one frame, from the i-th active clip on:
\* a video clip whose element is more than 0.1 s off its source time seeks the
\* element, replaces the element's onseeked handler and pushes a promise that
\* only this handler resolves
RECURSIVE SeekWalk(_, _, _, _, _)
SeekWalk(i, active, frame, media, promises) ==
    IF i > Len(active) THEN [media |-> media, promises |-> promises]
    ELSE LET clip == active[i]
             timeInClip == FrameTime(frame) - clip.startOffset
             sourceTime == clip.sourceStart + timeInClip
         IN  IF /\ clip.type = "video"
                /\ clip.assetId \in DOMAIN media
                /\ Abs(media[clip.assetId].currentTime - sourceTime) > SeekThreshold
             THEN SeekWalk(i + 1, active, frame,
                           [media EXCEPT ![clip.assetId] =
                               [currentTime |-> sourceTime,
                                onseeked |-> <<frame, i>>,
                                seeks |-> @.seeks + 1]],
                           promises \cup {<<frame, i>>})
             ELSE SeekWalk(i + 1, active, frame, media, promises)

\* handleStartExport: exportProject(project, ...) receives the project of the
\* render in which Export was clicked and preloads the media
handleStartExport ==
    /\ exporter = NoExport
    /\ exporter' = [phase |-> "loop", frame |-> 0,
                    project |-> [tracks |-> tracks, clips |-> clips,
                                 duration |-> duration],
                    media |-> MediaElements(clips), waiting |-> {}]
    /\ UNCHANGED <<projectVars, rampVars, isPlaying, loop, clipboard, frames,
                   extending, reframing>>

\* one pass of the frame loop up to "await Promise.all(seekPromises)"
ExportFrame ==
    /\ exporter.phase = "loop"
    /\ exporter.frame <= TotalFrames(exporter.project)
    /\ LET active == ExportActiveClips(exporter.project.tracks,
                                       ExportTimedClips(exporter.project.clips),
                                       FrameTime(exporter.frame))
           walked == SeekWalk(1, active, exporter.frame, exporter.media, {})
       IN  exporter' = [exporter EXCEPT !.phase = "await", !.media = walked.media,
                                        !.waiting = walked.promises]
    /\ UNCHANGED <<projectVars, rampVars, isPlaying, loop, clipboard, frames,
                   extending, reframing>>

\* a seeked event fires on a media element that was asked to seek: the
\* element's current onseeked handler runs and resolves its promise
ExportSeeked ==
    /\ exporter.phase # "idle"
    /\ \E a \in DOMAIN exporter.media :
          /\ exporter.media[a].seeks > 0
          /\ exporter' = [exporter EXCEPT
                             !.media[a].seeks = @ - 1,
                             !.waiting = @ \ {exporter.media[a].onseeked}]
    /\ UNCHANGED <<projectVars, rampVars, isPlaying, loop, clipboard, frames,
                   extending, reframing>>

\* every promise of the frame is resolved: the frame is drawn and, after the
\* 10 ms timeout, the loop goes on with the next frame
ExportDraw ==
    /\ exporter.phase = "await"
    /\ exporter.waiting = {}
    /\ exporter' = [exporter EXCEPT !.phase = "loop", !.frame = @ + 1]
    /\ UNCHANGED <<projectVars, rampVars, isPlaying, loop, clipboard, frames,
                   extending, reframing>>

\* the loop is over: recorder.stop()
ExportFinish ==
    /\ exporter.phase = "loop"
    /\ exporter.frame > TotalFrames(exporter.project)
    /\ exporter' = [exporter EXCEPT !.phase = "done"]
    /\ UNCHANGED <<projectVars, rampVars, isPlaying, loop, clipboard, frames,
                   extending, reframing>>

\* Projects to export: one video clip; two overlapping video clips of two
\* assets; two overlapping clips of one asset at the same source time; two
\* overlapping clips of one asset at different source times.
ExportClipLists ==
    { << WithAsset("a1", Clip(1, "video", "1", 0, 100, 0, FALSE, DefaultProperties)) >>,
      << WithAsset("a1", Clip(1, "video", "1", 0, 100, 0, FALSE, DefaultProperties)),
         WithAsset("a2", Clip(2, "video", "2", 40, 100, 0, FALSE, DefaultProperties)) >>,
      << WithAsset("a1", Clip(1, "video", "1", 40, 100, 0, FALSE, DefaultProperties)),
         WithAsset("a1", Clip(2, "video", "2", 40, 100, 0, FALSE, DefaultProperties)) >>,
      << WithAsset("a1", Clip(1, "video", "1", 0, 100, 0, FALSE, DefaultProperties)),
         WithAsset("a1", Clip(2, "video", "2", 40, 100, 0, FALSE, DefaultProperties)) >> }

InitExport ==
    /\ IdleProject
    /\ clips \in ExportClipLists
    /\ nextId = 2
    /\ markers = <<>>
    /\ currentTime = 0

NextExport ==
    \/ handleStartExport
    \/ ExportFrame
    \/ ExportSeeked
    \/ ExportDraw
    \/ ExportFinish

\* The event loop runs every continuation that is ready, and every requested
\* seek fires its seeked event.
SpecExport ==
    /\ InitExport
    /\ [][NextExport]_vars
    /\ WF_vars(ExportFrame)
    /\ WF_vars(ExportSeeked)
    /\ WF_vars(ExportDraw)
    /\ WF_vars(ExportFinish)

\* C25: an export that was started eventually ends its frame loop and stops
\* the recorder, also when two active video clips play the same asset at
\* different source times.
C25_ExportEventuallyStops == (exporter.phase # "idle") ~> (exporter.phase = "done")

-----------------------------------------------------------------------------
(* Inspector: actions that update the properties of the selected clip.     *)

\* { ...props, [key]: value }
SetProp(props, key, value) ==
    [k \in DOMAIN props \cup {key} |-> IF k = key THEN value ELSE props[k]]

\* updateProp(key, value) of the Inspector rendered with clip: the update
\* carries the properties of that render with the one key replaced
updateProp(cs, clip, key, value) ==
    updateClip(cs, clip.id, [properties |-> SetProp(clip.properties, key, value)])

\* the objects detectMaskableObjects found in the clip
MaskObjects == {"person", "car"}

\* toggleMask(obj): null is the string "null"
toggleMask ==
    \E obj \in MaskObjects :
        /\ SelectedIndex(clips) # 0
        /\ LET clip == clips[SelectedIndex(clips)]
               newValue == IF PropOr(clip, "activeMaskId", "null") = obj
                           THEN "null" ELSE obj
               first == updateProp(clips, clip, "activeMaskId", newValue)
           IN  /\ clips' = IF newValue # "null"
                           THEN updateProp(first, clip, "maskOverlayVisible", TRUE)
                           ELSE first
               /\ lastOp' = [name |-> "toggle-mask", clipId |-> clip.id, obj |-> obj,
                             newValue |-> newValue]
        /\ UNCHANGED <<tracks, markers, currentTime, duration, zoom, nextId, dragState,
                       snapLine, freeze, rampVars, sessionVars>>

\* the eye button: updateProp('maskOverlayVisible', !clip.properties.maskOverlayVisible)
toggleMaskOverlay ==
    /\ SelectedIndex(clips) # 0
    /\ LET clip == clips[SelectedIndex(clips)]
       IN  clips' = updateProp(clips, clip, "maskOverlayVisible",
                               ~PropOr(clip, "maskOverlayVisible", FALSE))
    /\ lastOp' = [name |-> "toggle-overlay"]
    /\ UNCHANGED <<tracks, markers, currentTime, duration, zoom, nextId, dragState,
                   snapLine, freeze, rampVars, sessionVars>>

\* the project aspect ratios for which the Auto Reframe button is enabled
ReframeRatios == {"9:16", "1:1", "4:5"}

TargetScale(projectAspectRatio) ==
    CASE projectAspectRatio = "9:16" -> 315
      [] projectAspectRatio = "1:1" -> 177
      [] projectAspectRatio = "4:5" -> 222
      [] OTHER -> 100

\* the xOffset values analyzeReframeFocus answers with
XOffsets == {-40, 0, 25}

\* handleAutoReframe up to the await: the closure keeps the clip of this render
handleAutoReframe ==
    \E ratio \in ReframeRatios :
        /\ ~reframing.pending
        /\ SelectedIndex(clips) # 0
        /\ reframing' = [pending |-> TRUE, clip |-> clips[SelectedIndex(clips)],
                         targetScale |-> TargetScale(ratio)]
        /\ lastOp' = [name |-> "reframe-request"]
        /\ UNCHANGED <<tracks, clips, markers, currentTime, duration, zoom, nextId,
                       dragState, snapLine, freeze, rampVars, isPlaying, loop,
                       clipboard, frames, extending, exporter>>

\* analyzeReframeFocus resolved: updateProp('scale', targetScale), then
\* updateProp('position', { x: -result.xOffset, y: 0 })
AutoReframeDone ==
    \E xOffset \in XOffsets :
        /\ reframing.pending
        /\ LET clip == reframing.clip
               first == updateProp(clips, clip, "scale", reframing.targetScale)
           IN  /\ clips' = updateProp(first, clip, "position",
                                      [x |-> -xOffset, y |-> 0])
               /\ lastOp' = [name |-> "reframe", clipId |-> clip.id,
                             targetScale |-> reframing.targetScale,
                             xOffset |-> xOffset]
        /\ reframing' = NoReframe
        /\ UNCHANGED <<tracks, markers, currentTime, duration, zoom, nextId, dragState,
                       snapLine, freeze, rampVars, isPlaying, loop, clipboard,
                       frames, extending, exporter>>

\* Two video clips on Video 1 and Video 2, the first one selected.
InitInspector ==
    /\ IdleProject
    /\ clips = << Clip(1, "video", "1", 20, 120, 0, TRUE, DefaultProperties),
                  Clip(2, "video", "2", 60, 100, 0, FALSE, DefaultProperties) >>
    /\ nextId = 2
    /\ markers = <<>>
    /\ currentTime = 0

NextInspector ==
    \/ \E i \in DOMAIN clips : handleSelectClip(clips[i].id)
    \/ toggleMask
    \/ toggleMaskOverlay
    \/ handleAutoReframe
    \/ AutoReframeDone

SpecInspector == InitInspector /\ [][NextInspector]_vars

\* C29: both property updates of one Inspector action take effect: after
\* toggleMask(obj) on a clip whose active mask was not obj, activeMaskId = obj
\* and maskOverlayVisible = true; after handleAutoReframe completes, scale is
\* the target scale and position is (-xOffset, 0).
C29_BothPropertyUpdatesApply ==
    /\ (lastOp.name = "toggle-mask" /\ lastOp.newValue # "null") =>
          LET c == ClipById(clips, lastOp.clipId)
          IN  /\ PropOr(c, "activeMaskId", "null") = lastOp.obj
              /\ PropOr(c, "maskOverlayVisible", FALSE)
    /\ lastOp.name = "reframe" =>
          LET c == ClipById(clips, lastOp.clipId)
          IN  /\ PropOr(c, "scale", 100) = lastOp.targetScale
              /\ PropOr(c, "position", [x |-> 0, y |-> 0])
                    = [x |-> -lastOp.xOffset, y |-> 0]

====
